---- MODULE Spec2Model ----
(***************************************************************************)
(* Mass-balance calculation engine of the stability-analysis backend       *)
(* (backend/debug_lims.js): calculateMassBalance and the POST              *)
(* /api/calculate handler that calls it, for one client and for several,   *)
(* and the hybrid detection module (calculateCompositeRRF,                 *)
(* detectUVSilentDegradants, estimateVolatileLoss,                         *)
(* assessMethodCompleteness), and the LIMS integration                     *)
(* (backend/lims/limsManager.js, limsConnector.js): the connector          *)
(* registry and the submission of a result with its retries.               *)
(*                                                                         *)
(* JavaScript numbers are modelled as exact rationals n/d (d > 0, lowest   *)
(* terms) extended with NaN and +/-Infinity; Math.sqrt is computed to      *)
(* three decimals (exact on squares of such numbers); toFixed rounds the   *)
(* exact value half away from zero.  A negative zero is not distinguished  *)
(* from zero.                                                              *)
(***************************************************************************)
EXTENDS Integers, Sequences, FiniteSets, TLC

VARIABLES
    pc,           \* "idle", "pending" (a request is in flight) or "responded"
    request,      \* req.body of the request in flight
    frame,        \* the locals of calculateMassBalance at its return statement
    calculation,  \* what calculateMassBalance returned or threw
    response,     \* the HTTP response: status and JSON body
    prev,         \* what the call before returned, when the client repeats a request
    pending,      \* req.body of each connection with a request in flight
    replies,      \* the HTTP response written to each connection
    call,         \* the exported function called last and its argument
    outcome,      \* what that call returned, threw or settled with
    lims_systems, \* lims_systems of lims_config.json: the entry of each known system
    limsManager,  \* the LIMSManager singleton: connectors and activeSystem
    submission    \* the submitResult in flight: its connector, call stack and attempts

\* the connections of several clients, and the hybrid-detection module
connectionVars == <<pending, replies>>
hybridVars == <<call, outcome>>
limsVars == <<lims_systems, limsManager, submission>>

vars == <<pc, request, frame, calculation, response, prev, connectionVars, hybridVars,
         limsVars>>

----------------------------------------------------------------------------
(* JavaScript values *)

Num(n, d) == [k |-> "number", n |-> n, d |-> d]
NaN == [k |-> "nan", n |-> 0, d |-> 1]
Infinity == [k |-> "inf", n |-> 1, d |-> 1]
NegInfinity == [k |-> "inf", n |-> -1, d |-> 1]
Null == [k |-> "null", n |-> 0, d |-> 1]
Undefined == [k |-> "undefined", n |-> 0, d |-> 1]
Str(s) == [k |-> "string", s |-> s]

Abs(i) == IF i < 0 THEN -i ELSE i
Sign(i) == IF i < 0 THEN -1 ELSE IF i > 0 THEN 1 ELSE 0

RECURSIVE GCD(_, _)
GCD(a, b) == IF b = 0 THEN a ELSE GCD(b, a % b)

\* the rational n/d in lowest terms with a positive denominator (d # 0)
Rat(n, d) ==
    LET g == GCD(Abs(n), Abs(d))
    IN  IF d < 0 THEN Num((-n) \div g, (-d) \div g) ELSE Num(n \div g, d \div g)

Int2Num(i) == Num(i, 1)

IsNumber(x) == x.k = "number"
IsNaN(x) == x.k = "nan"
IsInf(x) == x.k = "inf"
IsFinite(x) == x.k = "number"

\* sign of a number that is not NaN
Sgn(x) == Sign(x.n)

Neg(x) ==
    IF IsNaN(x) THEN NaN
    ELSE IF IsInf(x) THEN [x EXCEPT !.n = -x.n]
    ELSE Num(-x.n, x.d)

Add(a, b) ==
    IF IsNaN(a) \/ IsNaN(b) THEN NaN
    ELSE IF IsInf(a) /\ IsInf(b) THEN (IF a.n = b.n THEN a ELSE NaN)
    ELSE IF IsInf(a) THEN a
    ELSE IF IsInf(b) THEN b
    ELSE LET g == GCD(a.d, b.d)
         IN  Rat(a.n * (b.d \div g) + b.n * (a.d \div g), (a.d \div g) * b.d)

Sub(a, b) == Add(a, Neg(b))

Mul(a, b) ==
    IF IsNaN(a) \/ IsNaN(b) THEN NaN
    ELSE IF IsInf(a) \/ IsInf(b)
         THEN (IF Sgn(a) * Sgn(b) = 0 THEN NaN
               ELSE IF Sgn(a) * Sgn(b) > 0 THEN Infinity ELSE NegInfinity)
    ELSE IF a.n = 0 \/ b.n = 0 THEN Num(0, 1)
    ELSE LET g1 == GCD(Abs(a.n), b.d)
             g2 == GCD(Abs(b.n), a.d)
         IN  Num((a.n \div g1) * (b.n \div g2), (a.d \div g2) * (b.d \div g1))

Div(a, b) ==
    IF IsNaN(a) \/ IsNaN(b) THEN NaN
    ELSE IF IsInf(a) /\ IsInf(b) THEN NaN
    ELSE IF IsInf(a) THEN (IF Sgn(a) * Sgn(b) < 0 THEN NegInfinity ELSE Infinity)
    ELSE IF IsInf(b) THEN Num(0, 1)
    ELSE IF b.n = 0
         THEN (IF a.n = 0 THEN NaN ELSE IF a.n > 0 THEN Infinity ELSE NegInfinity)
    ELSE Mul(a, Rat(b.d * Sign(b.n), Abs(b.n)))

\* a < b, false when either is NaN
Lt(a, b) ==
    IF IsNaN(a) \/ IsNaN(b) THEN FALSE
    ELSE IF IsInf(a) THEN a.n < 0 /\ ~(IsInf(b) /\ b.n < 0)
    ELSE IF IsInf(b) THEN b.n > 0
    ELSE a.n * b.d < b.n * a.d

\* a === b on numbers, false when either is NaN
NumEq(a, b) == ~IsNaN(a) /\ ~IsNaN(b) /\ a = b

Le(a, b) == Lt(a, b) \/ NumEq(a, b)
Gt(a, b) == Lt(b, a)
Ge(a, b) == Le(b, a)

\* Math.pow(x, 2)
Pow2(x) == Mul(x, x)

\* the largest r in lo..hi with r * r <= n (lo * lo <= n < (hi + 1) * (hi + 1))
RECURSIVE ISqrtIn(_, _, _)
ISqrtIn(n, lo, hi) ==
    IF lo >= hi THEN lo
    ELSE LET mid == (lo + hi + 1) \div 2
         IN  IF mid * mid <= n THEN ISqrtIn(n, mid, hi) ELSE ISqrtIn(n, lo, mid - 1)

RECURSIVE Pow10(_)
Pow10(e) == IF e = 0 THEN 1 ELSE 10 * Pow10(e - 1)

\* floor(n * 10^digits / d) for 0 <= n, 0 < d, by long division
RECURSIVE ScaledFloor(_, _, _)
ScaledFloor(n, d, digits) ==
    IF digits = 0 THEN n \div d
    ELSE (n \div d) * Pow10(digits) + ScaledFloor((n % d) * 10, d, digits - 1)

\* Math.sqrt(x): NaN below zero, else the root to three decimals
Sqrt(x) ==
    IF IsNaN(x) THEN NaN
    ELSE IF IsInf(x) THEN (IF x.n > 0 THEN Infinity ELSE NaN)
    ELSE IF x.n < 0 THEN NaN
    ELSE Rat(ISqrtIn(ScaledFloor(x.n, x.d, 6), 0, 46340), 1000)

\* parseFloat(x.toFixed(digits)): the nearest multiple of 10^-digits, a tie
\* going away from zero; NaN and the infinities are kept
toFixed(x, digits) ==
    IF ~IsFinite(x) THEN x
    ELSE LET a == Abs(x.n)
             whole == ScaledFloor(a, x.d, digits)
             rest == ((a % x.d) * Pow10(digits)) % x.d
             units == IF 2 * rest >= x.d THEN whole + 1 ELSE whole
         IN  Rat(Sign(x.n) * units, Pow10(digits))

\* the truthiness of a value in a condition: 0, NaN, null and undefined are falsy
Truthy(v) ==
    CASE v.k = "number" -> v.n # 0
      [] v.k = "inf" -> TRUE
      [] v.k = "string" -> v.s # <<>>
      [] OTHER -> FALSE

\* String.prototype.toLowerCase over the ASCII letters
upperCase == <<"A","B","C","D","E","F","G","H","I","J","K","L","M",
               "N","O","P","Q","R","S","T","U","V","W","X","Y","Z">>
lowerCase == <<"a","b","c","d","e","f","g","h","i","j","k","l","m",
               "n","o","p","q","r","s","t","u","v","w","x","y","z">>
toLowerCaseChar(c) ==
    IF \E i \in DOMAIN upperCase : upperCase[i] = c
    THEN lowerCase[CHOOSE i \in DOMAIN upperCase : upperCase[i] = c]
    ELSE c
toLowerCase(s) == [i \in DOMAIN s |-> toLowerCaseChar(s[i])]

----------------------------------------------------------------------------
(* Statistical helper *)

tTableKeys == <<1, 2, 3, 4, 5, 6, 7, 8, 9, 10, 15, 20, 30, 60, 120>>
tTable ==
    [key \in {tTableKeys[i] : i \in DOMAIN tTableKeys} |->
        CASE key = 1 -> Rat(12706, 1000) [] key = 2 -> Rat(4303, 1000)
          [] key = 3 -> Rat(3182, 1000)  [] key = 4 -> Rat(2776, 1000)
          [] key = 5 -> Rat(2571, 1000)  [] key = 6 -> Rat(2447, 1000)
          [] key = 7 -> Rat(2365, 1000)  [] key = 8 -> Rat(2306, 1000)
          [] key = 9 -> Rat(2262, 1000)  [] key = 10 -> Rat(2228, 1000)
          [] key = 15 -> Rat(2131, 1000) [] key = 20 -> Rat(2086, 1000)
          [] key = 30 -> Rat(2042, 1000) [] key = 60 -> Rat(2000, 1000)
          [] key = 120 -> Rat(1980, 1000)]

\* the loop returning the value of the upper key of the bracket
RECURSIVE tTableScan_upper(_, _)
tTableScan_upper(degreesOfFreedom, i) ==
    IF i > Len(tTableKeys) - 1 THEN Rat(2, 1)
    ELSE IF degreesOfFreedom >= tTableKeys[i] /\ degreesOfFreedom <= tTableKeys[i + 1]
         THEN tTable[tTableKeys[i + 1]]
    ELSE tTableScan_upper(degreesOfFreedom, i + 1)

\* the for loop of getTDistributionValue from index i on (1-based here)
RECURSIVE tTableScan(_, _)
tTableScan(degreesOfFreedom, i) ==
    IF i > Len(tTableKeys) - 1 THEN Rat(2, 1)
    ELSE IF degreesOfFreedom >= tTableKeys[i] /\ degreesOfFreedom <= tTableKeys[i + 1]
         THEN tTable[tTableKeys[i]]
    ELSE tTableScan(degreesOfFreedom, i + 1)

getTDistributionValue(degreesOfFreedom) ==
    IF degreesOfFreedom \in DOMAIN tTable THEN tTable[degreesOfFreedom]
    ELSE IF degreesOfFreedom > 120 THEN Rat(196, 100)
    ELSE tTableScan(degreesOfFreedom, 1)

----------------------------------------------------------------------------------------------------------------------------------------
(* calculateMassBalance(data): each local of the function as an operator   *)
(* over the values its initialiser reads                                   *)

\* const { ..., stress_type = 'Unknown' } = data
Unknown == Str(<<"U", "n", "k", "n", "o", "w", "n">>)
stress_type(data) == IF data.stress_type = Undefined THEN Unknown ELSE data.stress_type

delta_api(initial_api, stressed_api) == Sub(initial_api, stressed_api)
delta_degradants(stressed_degradants, initial_degradants) ==
    Sub(stressed_degradants, initial_degradants)
degradation_level(deltaApi, initial_api) == Mul(Div(deltaApi, initial_api), Int2Num(100))

smb(stressed_api, stressed_degradants) == Add(stressed_api, stressed_degradants)

\* amb over the initial API alone
amb_over_initial_api(stressed_api, stressed_degradants, initial_api, initial_degradants) ==
    Mul(Div(Add(stressed_api, stressed_degradants), initial_api), Int2Num(100))

amb(stressed_api, stressed_degradants, initial_api, initial_degradants) ==
    Mul(Div(Add(stressed_api, stressed_degradants), Add(initial_api, initial_degradants)),
        Int2Num(100))

\* rmb without the delta_api === 0 guard
rmb_unguarded(deltaDegradants, deltaApi) ==
    Mul(Div(deltaDegradants, deltaApi), Int2Num(100))

rmb(deltaDegradants, deltaApi) ==
    IF NumEq(deltaApi, Int2Num(0)) THEN Null
    ELSE Mul(Div(deltaDegradants, deltaApi), Int2Num(100))

\* lambda as the response factor itself, not its reciprocal
lambda_not_inverted(rrf) == IF Truthy(rrf) THEN rrf ELSE Int2Num(1)

lambda(rrf) == IF Truthy(rrf) THEN Div(Int2Num(1), rrf) ELSE Int2Num(1)

omega(degradant_mw, parent_mw) ==
    IF Truthy(degradant_mw) /\ Truthy(parent_mw) THEN Div(parent_mw, degradant_mw)
    ELSE Int2Num(1)

\* stress_type.toLowerCase() is a TypeError on a value that is not a string
toLowerCaseThrows(data) ==
    Truthy(data.degradant_mw) /\ Truthy(data.parent_mw) /\ stress_type(data).k # "string"

\* hydrolysis and oxidation taken as a loss of mass
stoichiometric_factor_mass_lost(degradant_mw, parent_mw, stressType, omegaValue) ==
    IF Truthy(degradant_mw) /\ Truthy(parent_mw)
    THEN LET t == toLowerCase(stressType.s)
         IN  IF t = <<"a", "c", "i", "d">> \/ t = <<"b", "a", "s", "e">>
             THEN Div(Sub(parent_mw, Int2Num(18)), degradant_mw)
             ELSE IF t = <<"o", "x", "i", "d", "a", "t", "i", "v", "e">>
             THEN Div(Sub(parent_mw, Int2Num(16)), degradant_mw)
             ELSE omegaValue
    ELSE Int2Num(1)

\* the switch on stress_type as written, without toLowerCase()
stoichiometric_factor_case_sensitive(degradant_mw, parent_mw, stressType, omegaValue) ==
    IF Truthy(degradant_mw) /\ Truthy(parent_mw)
    THEN LET t == stressType.s
         IN  IF t = <<"a", "c", "i", "d">> \/ t = <<"b", "a", "s", "e">>
             THEN Div(Add(parent_mw, Int2Num(18)), degradant_mw)
             ELSE IF t = <<"o", "x", "i", "d", "a", "t", "i", "v", "e">>
             THEN Div(Add(parent_mw, Int2Num(16)), degradant_mw)
             ELSE omegaValue
    ELSE Int2Num(1)

stoichiometric_factor(degradant_mw, parent_mw, stressType, omegaValue) ==
    IF Truthy(degradant_mw) /\ Truthy(parent_mw)
    THEN LET t == toLowerCase(stressType.s)
         IN  IF t = <<"a", "c", "i", "d">> \/ t = <<"b", "a", "s", "e">>
             THEN Div(Add(parent_mw, Int2Num(18)), degradant_mw)
             ELSE IF t = <<"o", "x", "i", "d", "a", "t", "i", "v", "e">>
             THEN Div(Add(parent_mw, Int2Num(16)), degradant_mw)
             ELSE omegaValue
    ELSE Int2Num(1)

\* corrected_degradants_lk / corrected_degradants_cimb
corrected_degradants(stressed_degradants, lambdaValue, factor) ==
    Mul(Mul(stressed_degradants, lambdaValue), factor)
\* lk_imb_point / cimb_point
imb_point(stressed_api, correctedDegradants, initial_api) ==
    Mul(Div(Add(stressed_api, correctedDegradants), initial_api), Int2Num(100))

analytical_uncertainty == Rat(25, 10)

\* api_variance / deg_variance
variance(stressed) == Pow2(Div(Mul(stressed, analytical_uncertainty), Int2Num(100)))
\* lk_combined_variance / cimb_combined_variance
combined_variance(apiVariance, degVariance, lambdaValue, factor) ==
    Add(apiVariance, Mul(degVariance, Pow2(Mul(lambdaValue, factor))))
\* lk_combined_std / cimb_combined_std
combined_std(combinedVariance, initial_api) ==
    Mul(Div(Sqrt(combinedVariance), initial_api), Int2Num(100))

df == 2
t_critical == getTDistributionValue(df)
\* the margin with the normal value 1.96 for the t value
margin_of_error_normal(combinedStd) == Mul(Rat(196, 100), combinedStd)

\* lk_margin_of_error / cimb_margin_of_error
margin_of_error(combinedStd) == Mul(t_critical, combinedStd)

\* the lower bound with the margin added
lower_ci_added(point, marginOfError) == Add(point, marginOfError)

lower_ci(point, marginOfError) == Sub(point, marginOfError)
upper_ci(point, marginOfError) == Add(point, marginOfError)

\* the LOW band open at 98
lk_imb_risk_level_open(lk_imb_point) ==
    IF Gt(lk_imb_point, Int2Num(98)) /\ Le(lk_imb_point, Int2Num(102)) THEN "LOW"
    ELSE IF (Ge(lk_imb_point, Int2Num(95)) /\ Lt(lk_imb_point, Int2Num(98)))
            \/ (Gt(lk_imb_point, Int2Num(102)) /\ Le(lk_imb_point, Int2Num(105)))
         THEN "MODERATE"
    ELSE "HIGH"

lk_imb_risk_level(lk_imb_point) ==
    IF Ge(lk_imb_point, Int2Num(98)) /\ Le(lk_imb_point, Int2Num(102)) THEN "LOW"
    ELSE IF (Ge(lk_imb_point, Int2Num(95)) /\ Lt(lk_imb_point, Int2Num(98)))
            \/ (Gt(lk_imb_point, Int2Num(102)) /\ Le(lk_imb_point, Int2Num(105)))
         THEN "MODERATE"
    ELSE "HIGH"

cimb_risk_level(cimb_point) ==
    IF Ge(cimb_point, Int2Num(98)) /\ Le(cimb_point, Int2Num(102)) THEN "LOW"
    ELSE IF (Ge(cimb_point, Int2Num(95)) /\ Lt(cimb_point, Int2Num(98)))
            \/ (Gt(cimb_point, Int2Num(102)) /\ Le(cimb_point, Int2Num(105)))
         THEN "MODERATE"
    ELSE "HIGH"

\* the CIMB rule tested before the RMB rule
\* the chain with CIMB chosen on the degradation level alone
recommended_method_by_level(deltaApi, degradationLevel, cimbRiskLevel) ==
    IF Lt(deltaApi, Int2Num(2)) THEN "AMB"
    ELSE IF Ge(deltaApi, Int2Num(5)) /\ Le(deltaApi, Int2Num(20)) THEN "RMB"
    ELSE IF Gt(degradationLevel, Int2Num(20)) THEN "CIMB"
    ELSE "LK-IMB"

recommended_method_cimb_first(deltaApi, degradationLevel, cimbRiskLevel) ==
    IF Lt(deltaApi, Int2Num(2)) THEN "AMB"
    ELSE IF Gt(degradationLevel, Int2Num(20)) \/ cimbRiskLevel = "HIGH" THEN "CIMB"
    ELSE IF Ge(deltaApi, Int2Num(5)) /\ Le(deltaApi, Int2Num(20)) THEN "RMB"
    ELSE "LK-IMB"

recommended_method(deltaApi, degradationLevel, cimbRiskLevel) ==
    IF Lt(deltaApi, Int2Num(2)) THEN "AMB"
    ELSE IF Ge(deltaApi, Int2Num(5)) /\ Le(deltaApi, Int2Num(20)) THEN "RMB"
    ELSE IF Gt(degradationLevel, Int2Num(20)) \/ cimbRiskLevel = "HIGH" THEN "CIMB"
    ELSE "LK-IMB"

\* the LK-IMB branch returning the CIMB point
recommended_value_swapped(method, ambValue, rmbValue, lk_imb_point, cimb_point, smbValue) ==
    IF method = "AMB" THEN ambValue
    ELSE IF method = "RMB" THEN rmbValue
    ELSE IF method = "LK-IMB" THEN cimb_point
    ELSE IF method = "CIMB" THEN cimb_point
    ELSE smbValue

recommended_value(method, ambValue, rmbValue, lk_imb_point, cimb_point, smbValue) ==
    IF method = "AMB" THEN ambValue
    ELSE IF method = "RMB" THEN rmbValue
    ELSE IF method = "LK-IMB" THEN lk_imb_point
    ELSE IF method = "CIMB" THEN cimb_point
    ELSE smbValue

\* the thresholds taken as inclusive
confidence_index_inclusive(degradationLevel) ==
    IF Le(degradationLevel, Int2Num(5)) THEN Int2Num(70)
    ELSE IF Le(degradationLevel, Int2Num(10)) THEN Int2Num(85)
    ELSE Int2Num(95)

confidence_index(degradationLevel) ==
    IF Lt(degradationLevel, Int2Num(5)) THEN Int2Num(70)
    ELSE IF Lt(degradationLevel, Int2Num(10)) THEN Int2Num(85)
    ELSE Int2Num(95)

status(recommendedValue) ==
    IF Ge(recommendedValue, Int2Num(98)) /\ Le(recommendedValue, Int2Num(102)) THEN "PASS"
    ELSE IF Ge(recommendedValue, Int2Num(95)) /\ Le(recommendedValue, Int2Num(105))
         THEN "ALERT"
    ELSE "OOS"

diagnostic_message(recommendedValue) ==
    IF Lt(recommendedValue, Int2Num(95))
    THEN "Mass balance is below acceptable limits. Investigate for undetected degradation products or analytical method deficiencies."
    ELSE IF Gt(recommendedValue, Int2Num(105))
    THEN "Mass balance exceeds 105%. Check for analytical interference, impurity peaks being misidentified as API, or calibration issues."
    ELSE IF Ge(recommendedValue, Int2Num(95)) /\ Lt(recommendedValue, Int2Num(98))
    THEN "Mass balance is at lower borderline. Monitor closely and consider method validation."
    ELSE IF Gt(recommendedValue, Int2Num(102)) /\ Le(recommendedValue, Int2Num(105))
    THEN "Mass balance is at upper borderline. Verify peak purity and check for co-elution."
    ELSE "Mass balance is within acceptable limits (98-102%). Method demonstrates good recovery."

\* the template string, as its three varying parts
rationale(method, degradationLevel) ==
    <<method, toFixed(degradationLevel, 1),
      IF method = "CIMB"
      THEN "detector response (RRF), molecular weight changes, and degradation pathway stoichiometry"
      ELSE IF method = "LK-IMB" THEN "detector response (RRF) and molecular weight changes"
      ELSE "the specific characteristics of this degradation study">>

\* the locals of a call that reaches the return statement, before any rounding
locals(data) ==
    LET deltaApi == delta_api(data.initial_api, data.stressed_api)
        deltaDegradants == delta_degradants(data.stressed_degradants, data.initial_degradants)
        degradationLevel == degradation_level(deltaApi, data.initial_api)
        smbValue == smb(data.stressed_api, data.stressed_degradants)
        ambValue == amb(data.stressed_api, data.stressed_degradants,
                        data.initial_api, data.initial_degradants)
        rmbValue == rmb(deltaDegradants, deltaApi)
        lambdaValue == lambda(data.rrf)
        omegaValue == omega(data.degradant_mw, data.parent_mw)
        stoichiometricFactor ==
            stoichiometric_factor(data.degradant_mw, data.parent_mw, stress_type(data),
                                  omegaValue)
        lkPoint == imb_point(data.stressed_api,
                             corrected_degradants(data.stressed_degradants, lambdaValue,
                                                  omegaValue),
                             data.initial_api)
        apiVariance == variance(data.stressed_api)
        degVariance == variance(data.stressed_degradants)
        lkMargin ==
            margin_of_error(combined_std(
                combined_variance(apiVariance, degVariance, lambdaValue, omegaValue),
                data.initial_api))
        cimbPoint == imb_point(data.stressed_api,
                               corrected_degradants(data.stressed_degradants, lambdaValue,
                                                    stoichiometricFactor),
                               data.initial_api)
        cimbMargin ==
            margin_of_error(combined_std(
                combined_variance(apiVariance, degVariance, lambdaValue,
                                  stoichiometricFactor),
                data.initial_api))
        cimbRisk == cimb_risk_level(cimbPoint)
        method == recommended_method(deltaApi, degradationLevel, cimbRisk)
        recommendedValue ==
            recommended_value(method, ambValue, rmbValue, lkPoint, cimbPoint, smbValue)
    IN  [delta_api |-> deltaApi,
         degradation_level |-> degradationLevel,
         smb |-> smbValue,
         amb |-> ambValue,
         rmb |-> rmbValue,
         lambda |-> lambdaValue,
         omega |-> omegaValue,
         stoichiometric_factor |-> stoichiometricFactor,
         lk_imb_point |-> lkPoint,
         lk_imb_lower_ci |-> lower_ci(lkPoint, lkMargin),
         lk_imb_upper_ci |-> upper_ci(lkPoint, lkMargin),
         lk_imb_risk_level |-> lk_imb_risk_level(lkPoint),
         cimb_point |-> cimbPoint,
         cimb_lower_ci |-> lower_ci(cimbPoint, cimbMargin),
         cimb_upper_ci |-> upper_ci(cimbPoint, cimbMargin),
         cimb_risk_level |-> cimbRisk,
         recommended_method |-> method,
         recommended_value |-> recommendedValue,
         confidence_index |-> confidence_index(degradationLevel),
         status |-> status(recommendedValue),
         diagnostic_message |-> diagnostic_message(recommendedValue),
         rationale |-> rationale(method, degradationLevel)]

\* the object of the return statement
returned(l, uuid, now) ==
    [calculation_id |-> uuid,
     timestamp |-> now,
     results |->
         [smb |-> toFixed(l.smb, 2),
          amb |-> toFixed(l.amb, 2),
          rmb |-> IF l.rmb # Null THEN toFixed(l.rmb, 2) ELSE Null,
          lk_imb |-> toFixed(l.lk_imb_point, 2),
          lk_imb_lower_ci |-> toFixed(l.lk_imb_lower_ci, 2),
          lk_imb_upper_ci |-> toFixed(l.lk_imb_upper_ci, 2),
          lk_imb_risk_level |-> l.lk_imb_risk_level,
          cimb |-> toFixed(l.cimb_point, 2),
          cimb_lower_ci |-> toFixed(l.cimb_lower_ci, 2),
          cimb_upper_ci |-> toFixed(l.cimb_upper_ci, 2),
          cimb_risk_level |-> l.cimb_risk_level],
     correction_factors |->
         [lambda |-> toFixed(l.lambda, 2),
          omega |-> toFixed(l.omega, 2),
          stoichiometric_factor |-> toFixed(l.stoichiometric_factor, 2)],
     recommended_method |-> l.recommended_method,
     recommended_value |-> toFixed(l.recommended_value, 2),
     confidence_index |-> toFixed(l.confidence_index, 1),
     degradation_level |-> toFixed(l.degradation_level, 1),
     status |-> l.status,
     diagnostic_message |-> l.diagnostic_message,
     rationale |-> l.rationale]

\* the TypeError of stress_type.toLowerCase()
TypeError == [thrown |-> "TypeError", message |-> "toLowerCase"]

\* a call whose rationale text carries the time of the call
calculateMassBalance_clocked(data, l, uuid, now) ==
    IF toLowerCaseThrows(data) THEN TypeError
    ELSE [returned(l, uuid, now) EXCEPT !.rationale = Append(@, now)]

\* what a call does: the object it returns, or the TypeError it throws
\* a memoised engine: the record of the call before, under a new id and time
calculateMassBalance_memoised(data, l, uuid, now) ==
    IF "calculation_id" \in DOMAIN calculation
    THEN [calculation EXCEPT !.calculation_id = uuid, !.timestamp = now]
    ELSE IF toLowerCaseThrows(data) THEN TypeError
    ELSE returned(l, uuid, now)

calculateMassBalance(data, l, uuid, now) ==
    IF toLowerCaseThrows(data) THEN TypeError ELSE returned(l, uuid, now)

Threw(c) == "thrown" \in DOMAIN c

----------------------------------------------------------------------------
(* POST /api/calculate *)

\* JSON.stringify writes NaN and the infinities as null
jsonNumber(x) == IF x.k \in {"nan", "inf"} THEN Null ELSE x

json(c) ==
    [c EXCEPT
        !.results = [smb |-> jsonNumber(@.smb), amb |-> jsonNumber(@.amb),
                     rmb |-> jsonNumber(@.rmb), lk_imb |-> jsonNumber(@.lk_imb),
                     lk_imb_lower_ci |-> jsonNumber(@.lk_imb_lower_ci),
                     lk_imb_upper_ci |-> jsonNumber(@.lk_imb_upper_ci),
                     lk_imb_risk_level |-> @.lk_imb_risk_level,
                     cimb |-> jsonNumber(@.cimb),
                     cimb_lower_ci |-> jsonNumber(@.cimb_lower_ci),
                     cimb_upper_ci |-> jsonNumber(@.cimb_upper_ci),
                     cimb_risk_level |-> @.cimb_risk_level],
        !.correction_factors = [lambda |-> jsonNumber(@.lambda),
                                omega |-> jsonNumber(@.omega),
                                stoichiometric_factor |-> jsonNumber(@.stoichiometric_factor)],
        !.recommended_value = jsonNumber(@),
        !.confidence_index = jsonNumber(@),
        !.degradation_level = jsonNumber(@)]

None == [k |-> "none"]

MaxDelta == 21
MaxInitialDegradants == 1
MaxStressedDegradants == 5
MaxClock == 1

InitialApis == {0, 20, 100, 1000}
Uuids == {"uuid-a", "uuid-b"}
Clock == 0..MaxClock

Acid == Str(<<"A", "c", "i", "d">>)
Thermal == Str(<<"t", "h", "e", "r", "m", "a", "l">>)

\* request bodies: the API content before stress and the API lost under it, the
\* degradants before and after, and the optional correction inputs
Samples ==
    {[initial_api |-> Int2Num(ia), stressed_api |-> Int2Num(ia - loss),
      initial_degradants |-> Int2Num(id), stressed_degradants |-> Int2Num(sd)] :
        ia \in InitialApis, loss \in -1 .. MaxDelta,
        id \in 0 .. MaxInitialDegradants, sd \in 0 .. MaxStressedDegradants}

Correction(degradant_mw, parent_mw, rrf, stressType) ==
    [degradant_mw |-> degradant_mw, parent_mw |-> parent_mw, rrf |-> rrf,
     stress_type |-> stressType]

Corrections ==
    {Correction(Undefined, Undefined, Undefined, Undefined),
     Correction(Undefined, Undefined, Int2Num(2), Undefined),
     Correction(Undefined, Undefined, Undefined, Null),
     Correction(Int2Num(25), Undefined, Undefined, Acid),
     Correction(Undefined, Int2Num(24), Int2Num(2), Thermal),
     Correction(Int2Num(25), Int2Num(24), Undefined, Undefined),
     Correction(Int2Num(25), Int2Num(24), Undefined, Thermal),
     Correction(Int2Num(25), Int2Num(24), Undefined, Acid),
     Correction(Int2Num(25), Int2Num(24), Int2Num(2), Acid),
     Correction(Int2Num(25), Int2Num(24), Undefined, Null)}

Body(sample, correction) ==
    [initial_api |-> sample.initial_api, stressed_api |-> sample.stressed_api,
     initial_degradants |-> sample.initial_degradants,
     stressed_degradants |-> sample.stressed_degradants,
     degradant_mw |-> correction.degradant_mw, parent_mw |-> correction.parent_mw,
     rrf |-> correction.rrf, stress_type |-> correction.stress_type]

Requests ==
    {Body(s, c) : s \in {x \in Samples : x.stressed_api.n >= 0}, c \in Corrections}

Clients == {"client-1", "client-2"}

Init ==
    /\ pc = "idle"
    /\ request = None
    /\ frame = None
    /\ calculation = None
    /\ response = None
    /\ prev = None
    /\ pending = [c \in Clients |-> None]
    /\ replies = [c \in Clients |-> None]
    /\ call = None
    /\ outcome = None
    /\ lims_systems = [systemName \in {} |-> None]
    /\ limsManager = [connectors |-> [systemName \in {} |-> None], activeSystem |-> Null]
    /\ submission = None

\* a client posts a request body
SendRequest(bodies) ==
    /\ pc = "idle"
    /\ \E data \in bodies : request' = data
    /\ pc' = "pending"
    /\ UNCHANGED <<frame, calculation, response, prev, connectionVars, hybridVars, limsVars>>

\* app.post('/api/calculate', ...)
PostCalculate ==
    /\ pc = "pending"
    /\ frame' = IF toLowerCaseThrows(request) THEN None ELSE locals(request)
    /\ \E uuid \in Uuids, now \in Clock :
          /\ (prev # None /\ ~Threw(prev)) => now >= prev.timestamp
          /\ calculation' = calculateMassBalance(request, frame', uuid, now)
          /\ response' = IF Threw(calculation')
                         THEN [status |-> 400, body |-> [error |-> calculation'.message]]
                         ELSE [status |-> 200, body |-> json(calculation')]
    /\ pc' = "responded"
    /\ UNCHANGED <<request, prev, connectionVars, hybridVars, limsVars>>

\* the client reads the response
ReceiveResponse ==
    /\ pc = "responded"
    /\ pc' = "idle"
    /\ request' = None
    /\ frame' = None
    /\ calculation' = None
    /\ response' = None
    /\ prev' = None
    /\ UNCHANGED <<connectionVars, hybridVars, limsVars>>

\* the client posts the same body once more and keeps what the first call returned
Resend ==
    /\ pc = "responded"
    /\ prev = None
    /\ prev' = calculation
    /\ pc' = "pending"
    /\ frame' = None
    /\ calculation' = None
    /\ response' = None
    /\ UNCHANGED <<request, connectionVars, hybridVars, limsVars>>

Next == SendRequest(Requests) \/ PostCalculate \/ ReceiveResponse

Spec == Init /\ [][Next]_vars

\* the bodies a client repeats: no correction input, or one whose stress type throws
RepeatedRequests ==
    {r \in Requests :
        /\ r.initial_api \in {Int2Num(0), Int2Num(100)}
        /\ r.initial_degradants = Int2Num(0)
        /\ r.rrf = Undefined
        /\ (r.degradant_mw = Undefined) = (r.parent_mw = Undefined)
        /\ r.stress_type \in {Undefined, Null}}

NextRepeat == SendRequest(RepeatedRequests) \/ PostCalculate \/ Resend \/ ReceiveResponse

SpecRepeat == Init /\ [][NextRepeat]_vars

\* the stress types a client sends with both molecular weights: the five of the
\* form in several spellings, a value outside them, the empty text and none
StressTypes ==
    {Acid, Thermal, Undefined, Str(<<>>),
     Str(<<"a", "c", "i", "d">>), Str(<<"A", "C", "I", "D">>),
     Str(<<"b", "a", "s", "e">>), Str(<<"B", "a", "s", "E">>),
     Str(<<"o", "x", "i", "d", "a", "t", "i", "v", "e">>),
     Str(<<"O", "x", "i", "d", "a", "t", "i", "v", "e">>),
     Str(<<"P", "h", "o", "t", "o", "l", "y", "t", "i", "c">>),
     Str(<<"h", "u", "m", "i", "d", "i", "t", "y">>),
     Str(<<"a", "c", "i", "d", "s">>)}

FactorRequests ==
    {Body(s, Correction(Int2Num(mw[1]), Int2Num(mw[2]), rrf, t)) :
        s \in {x \in Samples : /\ x.initial_api = Int2Num(100)
                               /\ x.initial_degradants = Int2Num(0)
                               /\ x.stressed_api.n \in {90, 97, 100}
                               /\ x.stressed_degradants.n \in {0, 3}},
        mw \in {<<25, 24>>, <<24, 25>>}, rrf \in {Undefined, Int2Num(2)},
        t \in StressTypes}

NextFactors == SendRequest(FactorRequests) \/ PostCalculate \/ ReceiveResponse

SpecFactors == Init /\ [][NextFactors]_vars

\* several clients with a request in flight each; the handler runs to completion
\* for one connection at a time, in any order
ConcurrentRequests ==
    {r \in Requests :
        /\ r.initial_api = Int2Num(100) /\ r.initial_degradants = Int2Num(0)
        /\ r.stressed_degradants = Int2Num(3) /\ r.stressed_api.n \in {90, 97}
        /\ r.rrf = Undefined
        /\ (r.degradant_mw = Undefined) = (r.parent_mw = Undefined)
        /\ r.stress_type \in {Acid, Null}}

Post(c) ==
    /\ pending[c] = None
    /\ \E data \in ConcurrentRequests : pending' = [pending EXCEPT ![c] = data]
    /\ UNCHANGED <<pc, request, frame, calculation, response, prev, replies, hybridVars, limsVars>>

\* app.post('/api/calculate', ...) for the request of connection c
Serve(c) ==
    /\ pending[c] # None
    /\ replies[c] = None
    /\ frame' = IF toLowerCaseThrows(pending[c]) THEN None ELSE locals(pending[c])
    /\ \E uuid \in Uuids, now \in Clock :
          /\ calculation' = calculateMassBalance(pending[c], frame', uuid, now)
          /\ replies' = [replies EXCEPT ![c] =
                            IF Threw(calculation')
                            THEN [status |-> 400, body |-> [error |-> calculation'.message]]
                            ELSE [status |-> 200, body |-> json(calculation')]]
    /\ UNCHANGED <<pc, request, response, prev, pending, hybridVars, limsVars>>

\* the client of connection c reads its response
Collect(c) ==
    /\ replies[c] # None
    /\ pending' = [pending EXCEPT ![c] = None]
    /\ replies' = [replies EXCEPT ![c] = None]
    /\ UNCHANGED <<pc, request, frame, calculation, response, prev, hybridVars, limsVars>>

NextConcurrent == \E c \in Clients : Post(c) \/ Serve(c) \/ Collect(c)

SpecConcurrent == Init /\ [][NextConcurrent]_vars

----------------------------------------------------------------------------
(* Hybrid detection module: calculateCompositeRRF, detectUVSilentDegradants, *)
(* estimateVolatileLoss and assessMethodCompleteness                         *)

\* a destructuring default, taken when the field is absent
orDefault(v, d) == IF v = Undefined THEN d ELSE v
\* a || b
Or(a, b) == IF Truthy(a) THEN a ELSE b
MathMax(a, b) == IF Lt(a, b) THEN b ELSE a
MathMin(a, b) == IF Lt(b, a) THEN b ELSE a

RECURSIVE join(_, _)
join(xs, separator) ==
    IF xs = <<>> THEN ""
    ELSE IF Len(xs) = 1 THEN xs[1]
    ELSE xs[1] \o separator \o join(Tail(xs), separator)

\* the scorer without the default uv = true
assessMethodCompleteness_uv_optional(detectors) ==
    LET get(key) == IF key \in DOMAIN detectors THEN detectors[key] ELSE FALSE
        checks ==
            <<[present |-> get("uv"),
               else |-> [priority |-> "HIGH", message |-> "Add UV detection",
                         benefit |-> "Base quantification"]],
              [present |-> get("elsd"),
               else |-> [priority |-> "MODERATE", message |-> "Add ELSD/CAD",
                         benefit |-> "Detects UV-silent degradants"]],
              [present |-> get("ms"),
               else |-> [priority |-> "INFO", message |-> "Add LC-MS",
                         benefit |-> "Peak identification and purity"]],
              [present |-> get("gc_ms"),
               else |-> [priority |-> "MODERATE", message |-> "Add GC-MS",
                         benefit |-> "Detects volatile degradants"]]>>
        missing == SelectSeq(checks, LAMBDA check : ~check.present)
        score == 25 * (Len(checks) - Len(missing))
    IN  [completeness_score |-> score,
         completeness_pct |-> score,
         chromophore_coverage |-> get("uv"),
         non_uv_coverage |-> get("elsd"),
         structural_confirmation |-> get("ms"),
         volatile_coverage |-> get("gc_ms"),
         recommendations |-> [i \in 1 .. Len(missing) |-> missing[i].else]]

\* detectors is an object with any of the keys uv, elsd, ms, gc_ms
assessMethodCompleteness(detectors) ==
    LET get(key, d) == IF key \in DOMAIN detectors THEN detectors[key] ELSE d
        uv == get("uv", TRUE)
        elsd == get("elsd", FALSE)
        ms == get("ms", FALSE)
        gc_ms == get("gc_ms", FALSE)
        checks ==
            <<[present |-> uv,
               else |-> [priority |-> "HIGH", message |-> "Add UV detection",
                         benefit |-> "Base quantification"]],
              [present |-> elsd,
               else |-> [priority |-> "MODERATE", message |-> "Add ELSD/CAD",
                         benefit |-> "Detects UV-silent degradants"]],
              [present |-> ms,
               else |-> [priority |-> "INFO", message |-> "Add LC-MS",
                         benefit |-> "Peak identification and purity"]],
              [present |-> gc_ms,
               else |-> [priority |-> "MODERATE", message |-> "Add GC-MS",
                         benefit |-> "Detects volatile degradants"]]>>
        missing == SelectSeq(checks, LAMBDA check : ~check.present)
        score == 25 * (Len(checks) - Len(missing))
    IN  [completeness_score |-> score,
         completeness_pct |-> score,
         chromophore_coverage |-> uv,
         non_uv_coverage |-> elsd,
         structural_confirmation |-> ms,
         volatile_coverage |-> gc_ms,
         recommendations |-> [i \in 1 .. Len(missing) |-> missing[i].else]]

\* the UV-only return with the scorer told that UV is not used
uv_only_no_detectors(uv_rrf) ==
    [composite_rrf |-> Or(uv_rrf, Int2Num(1)),
     detection_coverage_pct |-> 100,
     detection_sources |-> "UV Only",
     method_completeness |-> assessMethodCompleteness([uv |-> FALSE])]

\* the return of the branch taken when neither elsd_rrf nor ms_intensity is truthy,
\* with composite_rrf fixed at 1.0
uv_only_unit(uv_rrf) ==
    [composite_rrf |-> Int2Num(1),
     detection_coverage_pct |-> 100,
     detection_sources |-> "UV Only",
     method_completeness |-> assessMethodCompleteness([uv |-> TRUE])]

uv_only(uv_rrf) ==
    [composite_rrf |-> Or(uv_rrf, Int2Num(1)),
     detection_coverage_pct |-> 100,
     detection_sources |-> "UV Only",
     method_completeness |-> assessMethodCompleteness([uv |-> TRUE])]

\* the intensity relative to 1E6 counts, not clamped
msFactor_unclamped(ms_intensity) == Div(ms_intensity, Int2Num(1000000))

msFactor(ms_intensity) ==
    MathMin(Int2Num(2), MathMax(Rat(1, 2), Div(ms_intensity, Int2Num(1000000))))

\* the coverage held at 100
detection_coverage_pct_clamped(elsd_rrf, ms_intensity) ==
    IF 100 + (IF Truthy(elsd_rrf) THEN 20 ELSE 0) + (IF Truthy(ms_intensity) THEN 15 ELSE 0)
           > 100
    THEN 100
    ELSE 100 + (IF Truthy(elsd_rrf) THEN 20 ELSE 0) + (IF Truthy(ms_intensity) THEN 15 ELSE 0)

detection_coverage_pct(elsd_rrf, ms_intensity) ==
    100 + (IF Truthy(elsd_rrf) THEN 20 ELSE 0) + (IF Truthy(ms_intensity) THEN 15 ELSE 0)

calculateCompositeRRF(detectionData) ==
    LET uv_rrf == orDefault(detectionData.uv_rrf, Int2Num(1))
        elsd_rrf == orDefault(detectionData.elsd_rrf, Null)
        ms_intensity == orDefault(detectionData.ms_intensity, Null)
    IN  IF ~Truthy(elsd_rrf) /\ ~Truthy(ms_intensity) THEN uv_only(uv_rrf)
        ELSE
        LET elsd == Truthy(elsd_rrf)
            ms == Truthy(ms_intensity)
            totalWeight == Add(Add(Int2Num(1), IF elsd THEN Int2Num(2) ELSE Int2Num(0)),
                               IF ms THEN Rat(1, 2) ELSE Int2Num(0))
            weightedSum ==
                Add(Add(Or(uv_rrf, Int2Num(1)),
                        IF elsd THEN Mul(elsd_rrf, Int2Num(2)) ELSE Int2Num(0)),
                    IF ms THEN Mul(msFactor(ms_intensity), Rat(1, 2)) ELSE Int2Num(0))
            sources == <<"UV">> \o (IF elsd THEN <<"ELSD">> ELSE <<>>)
                                \o (IF ms THEN <<"MS">> ELSE <<>>)
            detectors == (IF ms THEN [ms |-> TRUE] ELSE <<>>)
                         @@ (IF elsd THEN [elsd |-> TRUE] ELSE <<>>) @@ [uv |-> TRUE]
        IN  [composite_rrf |-> toFixed(Div(weightedSum, totalWeight), 2),
             detection_coverage_pct |-> detection_coverage_pct(elsd_rrf, ms_intensity),
             detection_sources |-> join(sources, " + "),
             method_completeness |-> assessMethodCompleteness(detectors)]

\* the impact with the thresholds taken as inclusive
impact_on_mb_inclusive(uvSilentGap) ==
    IF Ge(uvSilentGap, Int2Num(2)) THEN "SIGNIFICANT"
    ELSE IF Ge(uvSilentGap, Rat(1, 2)) THEN "MODERATE"
    ELSE "NEGLIGIBLE"

impact_on_mb(uvSilentGap) ==
    IF Gt(uvSilentGap, Int2Num(2)) THEN "SIGNIFICANT"
    ELSE IF Gt(uvSilentGap, Rat(1, 2)) THEN "MODERATE"
    ELSE "NEGLIGIBLE"

detectUVSilentDegradants(degradantData) ==
    LET stressed_degradants_uv == orDefault(degradantData.stressed_degradants_uv, Int2Num(0))
        stressed_degradants_elsd ==
            orDefault(degradantData.stressed_degradants_elsd, Int2Num(0))
        stressed_degradants_total ==
            orDefault(degradantData.stressed_degradants_total, Int2Num(0))
        uvSilentGap ==
            MathMax(Int2Num(0), Sub(stressed_degradants_elsd, stressed_degradants_uv))
        uvSilentPct ==
            IF Gt(stressed_degradants_total, Int2Num(0))
            THEN toFixed(Mul(Div(uvSilentGap, stressed_degradants_total), Int2Num(100)), 1)
            ELSE Int2Num(0)
    IN  [uv_silent_detected |-> Gt(uvSilentGap, Rat(1, 2)),
         uv_silent_degradants_pct |-> uvSilentPct,
         impact_on_mb |-> impact_on_mb(uvSilentGap),
         recommendation |-> IF Gt(uvSilentGap, Rat(1, 2))
                            THEN "Use ELSD/CAD for accurate quantification"
                            ELSE "UV detection sufficient"]

\* the severity with the thresholds taken as inclusive
severity_inclusive(loss) ==
    IF Ge(loss, Int2Num(5)) THEN "HIGH"
    ELSE IF Ge(loss, Int2Num(2)) THEN "MODERATE"
    ELSE "LOW"

severity(loss) ==
    IF Gt(loss, Int2Num(5)) THEN "HIGH"
    ELSE IF Gt(loss, Int2Num(2)) THEN "MODERATE"
    ELSE "LOW"

\* the estimator with the volatiles counted as lost, not as found
estimateVolatileLoss_volatiles_lost(massBalanceData) ==
    LET initial_api == massBalanceData.initial_api
        gc_ms_volatiles == orDefault(massBalanceData.gc_ms_volatiles, Int2Num(0))
        theoretical_mb == initial_api
        actual_mb == Sub(Add(massBalanceData.stressed_api,
                             massBalanceData.stressed_degradants), gc_ms_volatiles)
        loss == MathMax(Int2Num(0), Sub(theoretical_mb, actual_mb))
        lossPct == toFixed(Mul(Div(loss, initial_api), Int2Num(100)), 1)
    IN  [volatile_loss_detected |-> Gt(loss, Int2Num(2)) \/ Gt(gc_ms_volatiles, Int2Num(0)),
         volatile_loss_pct |-> lossPct,
         gc_ms_confirmation |-> Gt(gc_ms_volatiles, Int2Num(0)),
         severity |-> severity(loss),
         recommendation |-> IF Gt(loss, Int2Num(2)) THEN "Perform GC-MS headspace analysis"
                            ELSE "No significant volatile loss"]

estimateVolatileLoss(massBalanceData) ==
    LET initial_api == massBalanceData.initial_api
        gc_ms_volatiles == orDefault(massBalanceData.gc_ms_volatiles, Int2Num(0))
        theoretical_mb == initial_api
        actual_mb == Add(Add(massBalanceData.stressed_api,
                             massBalanceData.stressed_degradants), gc_ms_volatiles)
        loss == MathMax(Int2Num(0), Sub(theoretical_mb, actual_mb))
        lossPct == toFixed(Mul(Div(loss, initial_api), Int2Num(100)), 1)
    IN  [volatile_loss_detected |-> Gt(loss, Int2Num(2)) \/ Gt(gc_ms_volatiles, Int2Num(0)),
         volatile_loss_pct |-> lossPct,
         gc_ms_confirmation |-> Gt(gc_ms_volatiles, Int2Num(0)),
         severity |-> severity(loss),
         recommendation |-> IF Gt(loss, Int2Num(2)) THEN "Perform GC-MS headspace analysis"
                            ELSE "No significant volatile loss"]

\* what callers pass: response factors and an MS intensity, present or not
DetectionInputs ==
    [uv_rrf : {Undefined, Null, Int2Num(0), Int2Num(1), Rat(6, 5), Rat(3, 2)},
     elsd_rrf : {Undefined, Null, Int2Num(0), Rat(3, 2), Int2Num(2), Rat(7, 3)},
     ms_intensity : {Undefined, Null, Int2Num(0), Int2Num(-5), Int2Num(250000),
                     Int2Num(1500000), Int2Num(3000000)}]

\* degradant amounts in halves of a percent
MaxDegradantHalves == 6
DegradantAmounts == {Undefined} \cup {Rat(h, 2) : h \in 0 .. MaxDegradantHalves}
DegradantInputs ==
    [stressed_degradants_uv : DegradantAmounts,
     stressed_degradants_elsd : DegradantAmounts,
     stressed_degradants_total : {Undefined, Int2Num(0), Int2Num(3), Int2Num(5)}]

\* a mass balance with an API loss of up to MaxLoss and volatiles found by GC-MS
MaxLoss == 8
VolatileInputs ==
    {[initial_api |-> Int2Num(ia), stressed_api |-> Int2Num(ia - loss),
      stressed_degradants |-> Int2Num(sd), gc_ms_volatiles |-> gc, amb |-> Undefined] :
        ia \in {0, 30, 100}, loss \in 0 .. MaxLoss, sd \in {0, 1, 3},
        gc \in {Undefined, Int2Num(0), Rat(1, 2), Int2Num(3)}}

DetectorKeys == {"uv", "elsd", "ms", "gc_ms"}
DetectorSets == UNION {[keys -> BOOLEAN] : keys \in SUBSET DetectorKeys}

\* a caller calls one of the exported functions, which returns at once
CalculateCompositeRRF ==
    /\ call = None
    /\ \E detectionData \in DetectionInputs :
          /\ call' = [fn |-> "calculateCompositeRRF", arg |-> detectionData]
          /\ outcome' = calculateCompositeRRF(detectionData)
    /\ UNCHANGED <<pc, request, frame, calculation, response, prev, connectionVars, limsVars>>

DetectUVSilentDegradants ==
    /\ call = None
    /\ \E degradantData \in DegradantInputs :
          /\ call' = [fn |-> "detectUVSilentDegradants", arg |-> degradantData]
          /\ outcome' = detectUVSilentDegradants(degradantData)
    /\ UNCHANGED <<pc, request, frame, calculation, response, prev, connectionVars, limsVars>>

EstimateVolatileLoss ==
    /\ call = None
    /\ \E massBalanceData \in {d \in VolatileInputs : d.stressed_api.n >= 0} :
          /\ call' = [fn |-> "estimateVolatileLoss", arg |-> massBalanceData]
          /\ outcome' = estimateVolatileLoss(massBalanceData)
    /\ UNCHANGED <<pc, request, frame, calculation, response, prev, connectionVars, limsVars>>

AssessMethodCompleteness ==
    /\ call = None
    /\ \E detectors \in DetectorSets :
          /\ call' = [fn |-> "assessMethodCompleteness", arg |-> detectors]
          /\ outcome' = assessMethodCompleteness(detectors)
    /\ UNCHANGED <<pc, request, frame, calculation, response, prev, connectionVars, limsVars>>

\* the caller has used the result
Discard ==
    /\ call # None
    /\ call' = None
    /\ outcome' = None
    /\ UNCHANGED <<pc, request, frame, calculation, response, prev, connectionVars, limsVars>>

NextHybrid ==
    \/ CalculateCompositeRRF
    \/ DetectUVSilentDegradants
    \/ EstimateVolatileLoss
    \/ AssessMethodCompleteness
    \/ Discard

SpecHybrid == Init /\ [][NextHybrid]_vars

\* the statistical helper called on its own, for whole degrees of freedom
MaxDf == 130
GetTDistributionValue ==
    /\ call = None
    /\ \E degreesOfFreedom \in 0 .. MaxDf :
          /\ call' = [fn |-> "getTDistributionValue", arg |-> degreesOfFreedom]
          /\ outcome' = getTDistributionValue(degreesOfFreedom)
    /\ UNCHANGED <<pc, request, frame, calculation, response, prev, connectionVars, limsVars>>

NextTDistribution == GetTDistributionValue \/ Discard

SpecTDistribution == Init /\ [][NextTDistribution]_vars

----------------------------------------------------------------------------
(* LIMS integration: LIMSManager and LIMSConnector *)

Throws(r) == "threw" \in DOMAIN r

\* new LIMSConnector(systemName, config): the connector, or the error thrown
LIMSConnector(systemName, config) ==
    IF systemName \notin DOMAIN lims_systems
    THEN [threw |-> [message |-> "LIMS system not found", system |-> systemName]]
    ELSE IF ~lims_systems[systemName].supported
    THEN [threw |-> [message |-> "LIMS system not supported", system |-> systemName]]
    ELSE [systemName |-> systemName, config |-> config]

\* Map.prototype.set
set(map, key, value) ==
    [k \in DOMAIN map \cup {key} |-> IF k = key THEN value ELSE map[k]]

\* initialize with activeSystem assigned before the connector is constructed
initialize_active_first(this, systemName, config) ==
    LET connector == LIMSConnector(systemName, config)
    IN  IF Throws(connector)
        THEN [this |-> [this EXCEPT !.activeSystem = systemName],
              threw |-> connector.threw]
        ELSE [this |-> [connectors |-> set(this.connectors, systemName, connector),
                        activeSystem |-> systemName],
              returned |-> connector]

\* this is the manager before the call; the result holds the manager after it
initialize(this, systemName, config) ==
    LET connector == LIMSConnector(systemName, config)
    IN  IF Throws(connector) THEN [this |-> this, threw |-> connector.threw]
        ELSE [this |-> [connectors |-> set(this.connectors, systemName, connector),
                        activeSystem |-> systemName],
              returned |-> connector]

getConnector(this, systemName) ==
    LET name == Or(systemName, this.activeSystem)
    IN  IF ~Truthy(name)
        THEN [threw |-> [message |-> "No LIMS system specified"]]
        ELSE IF name \notin DOMAIN this.connectors
        THEN [threw |-> [message |-> "LIMS connector not initialized", system |-> name]]
        ELSE [returned |-> this.connectors[name]]

\* connector.testConnection(): authenticate() returns or throws
connectorTestConnection(connector, authenticated) ==
    IF authenticated
    THEN [fulfilled |-> [success |-> TRUE, message |-> "LIMS connection successful",
                         system |-> connector.systemName]]
    ELSE [fulfilled |-> [success |-> FALSE, system |-> connector.systemName]]

testConnection(this, systemName, config, authenticated) ==
    IF config # Undefined
    THEN LET tempConnector == LIMSConnector(systemName, config)
         IN  IF Throws(tempConnector)
             THEN [fulfilled |-> [success |-> FALSE, error |-> tempConnector.threw.message,
                                  system |-> systemName]]
             ELSE connectorTestConnection(tempConnector, authenticated)
    ELSE IF systemName \notin DOMAIN this.connectors /\ systemName \in DOMAIN lims_systems
    THEN [fulfilled |-> [success |-> TRUE,
                         message |-> "System supported, authentication required",
                         system |-> systemName]]
    ELSE LET connector == getConnector(this, systemName)
         IN  IF Throws(connector) THEN [rejected |-> connector.threw]
             ELSE connectorTestConnection(connector.returned, authenticated)

maxRetries == 3

\* the call stack of a submission: the innermost call is last.  A call of
\* submitResult is making its attempt; a call of retrySubmission that is innermost
\* is waiting for its delay, one further out awaits the submitResult it called.
RECURSIVE throw(_, _)
RECURSIVE retrySubmission(_, _)

\* retrySubmission(calculationData, attempt) called on top of stack: the stack with
\* the call waiting for its delay, or what unwinding 'Max retries exceeded' leaves
retrySubmission(stack, attempt) ==
    IF attempt > maxRetries
    THEN throw(stack, [message |-> "Max retries exceeded"])
    ELSE [stack |-> Append(stack, [fn |-> "retrySubmission", attempt |-> attempt,
                                   delay |-> 1000 * 2 ^ (attempt - 1)])]

\* error leaves the call above stack: the retrySubmission awaiting that call
\* catches it and returns retrySubmission(attempt + 1); with no caller left the
\* promise of the outermost submitResult rejects
throw(stack, error) ==
    IF stack = <<>> THEN [threw |-> error]
    ELSE LET caller == stack[Len(stack)]
         IN  retrySubmission(SubSeq(stack, 1, Len(stack) - 1), caller.attempt + 1)

\* config.retry_policy?.enabled
retryEnabled(config) ==
    "retry_policy" \in DOMAIN config /\ config.retry_policy.enabled

\* the catch block of submitResult, entered by the call above stack
submitResultFailed(connector, stack) ==
    IF retryEnabled(connector.config) THEN retrySubmission(stack, 1)
    ELSE throw(stack, [success |-> FALSE, lims_system |-> connector.systemName])

\* the systems a caller names, the configs it passes and the config files read
LabWare == Str(<<"l", "a", "b", "w", "a", "r", "e">>)
Starlims == Str(<<"s", "t", "a", "r", "l", "i", "m", "s">>)
Systems == {LabWare, Starlims}
SystemNames == Systems \cup {Undefined}
Configs == {[retry_policy |-> [enabled |-> TRUE]], [api_key |-> "key"]}
LimsConfigs ==
    UNION {[known -> {[supported |-> TRUE], [supported |-> FALSE]}] :
              known \in SUBSET Systems}

\* submission attempts followed in one submitResult call
MaxAttempts == 6

InitLims ==
    /\ pc = "idle"
    /\ request = None
    /\ frame = None
    /\ calculation = None
    /\ response = None
    /\ prev = None
    /\ pending = [c \in Clients |-> None]
    /\ replies = [c \in Clients |-> None]
    /\ call = None
    /\ outcome = None
    /\ lims_systems \in LimsConfigs
    /\ limsManager = [connectors |-> [systemName \in {} |-> None], activeSystem |-> Null]
    /\ submission = None

Initialize ==
    /\ call = None
    /\ \E systemName \in SystemNames, config \in Configs :
          LET result == initialize(limsManager, systemName, config)
          IN  /\ limsManager' = result.this
              /\ call' = [fn |-> "initialize", arg |-> systemName]
              /\ outcome' = IF Throws(result) THEN [threw |-> result.threw]
                            ELSE [returned |-> result.returned]
    /\ UNCHANGED <<pc, request, frame, calculation, response, prev, connectionVars,
                   lims_systems, submission>>

GetConnector ==
    /\ call = None
    /\ \E systemName \in SystemNames :
          /\ call' = [fn |-> "getConnector", arg |-> systemName]
          /\ outcome' = getConnector(limsManager, systemName)
    /\ UNCHANGED <<pc, request, frame, calculation, response, prev, connectionVars,
                   limsVars>>

\* limsManager.submitResult: the promise rejects at once when getConnector throws,
\* else connector.submitResult starts its first attempt
SubmitResult ==
    /\ call = None
    /\ submission = None
    /\ \E systemName \in SystemNames :
          LET connector == getConnector(limsManager, systemName)
          IN  IF Throws(connector)
              THEN /\ call' = [fn |-> "submitResult", arg |-> systemName]
                   /\ outcome' = [rejected |-> connector.threw]
                   /\ UNCHANGED submission
              ELSE /\ submission' = [connector |-> connector.returned,
                                     stack |-> <<[fn |-> "submitResult"]>>,
                                     attempts |-> 1]
                   /\ UNCHANGED <<call, outcome>>
    /\ UNCHANGED <<pc, request, frame, calculation, response, prev, connectionVars,
                   lims_systems, limsManager>>

\* the attempt of the innermost submitResult succeeds, and every caller returns
\* its result, or fails, and its catch block retries or throws
Attempt ==
    /\ call = None
    /\ submission # None
    /\ submission.stack[Len(submission.stack)].fn = "submitResult"
    /\ \E succeeds \in BOOLEAN :
          LET callers == SubSeq(submission.stack, 1, Len(submission.stack) - 1)
              caught == submitResultFailed(submission.connector, callers)
              settled == [fn |-> "submitResult", arg |-> submission.connector.systemName,
                          attempts |-> submission.attempts]
          IN  IF succeeds
              THEN /\ call' = settled
                   /\ outcome' = [fulfilled |-> [success |-> TRUE,
                                                 message |-> "Result submitted to LIMS"]]
                   /\ submission' = None
              ELSE IF Throws(caught)
              THEN /\ call' = settled
                   /\ outcome' = [rejected |-> caught.threw]
                   /\ submission' = None
              ELSE /\ submission' = [submission EXCEPT !.stack = caught.stack]
                   /\ UNCHANGED <<call, outcome>>
    /\ UNCHANGED <<pc, request, frame, calculation, response, prev, connectionVars,
                   lims_systems, limsManager>>

\* the delay of the innermost retrySubmission elapses and it calls submitResult
Timeout ==
    /\ submission # None
    /\ submission.stack[Len(submission.stack)].fn = "retrySubmission"
    /\ submission.attempts < MaxAttempts
    /\ submission' = [submission EXCEPT !.stack = Append(@, [fn |-> "submitResult"]),
                                        !.attempts = @ + 1]
    /\ UNCHANGED <<pc, request, frame, calculation, response, prev, connectionVars,
                   hybridVars, lims_systems, limsManager>>

\* limsManager.fetchSamples: the request of the connector succeeds or fails
FetchSamples ==
    /\ call = None
    /\ \E systemName \in SystemNames, succeeds \in BOOLEAN :
          LET connector == getConnector(limsManager, systemName)
          IN  /\ call' = [fn |-> "fetchSamples", arg |-> systemName]
              /\ outcome' =
                    IF Throws(connector) THEN [rejected |-> connector.threw]
                    ELSE IF succeeds THEN [fulfilled |-> [success |-> TRUE]]
                    ELSE [rejected |-> [success |-> FALSE,
                                        lims_system |-> connector.returned.systemName]]
    /\ UNCHANGED <<pc, request, frame, calculation, response, prev, connectionVars,
                   limsVars>>

TestConnection ==
    /\ call = None
    /\ \E systemName \in SystemNames, config \in Configs \cup {Undefined},
          authenticated \in BOOLEAN :
          /\ call' = [fn |-> "testConnection", arg |-> systemName]
          /\ outcome' = testConnection(limsManager, systemName, config, authenticated)
    /\ UNCHANGED <<pc, request, frame, calculation, response, prev, connectionVars,
                   limsVars>>

NextLims ==
    \/ Initialize
    \/ GetConnector
    \/ SubmitResult
    \/ Attempt
    \/ Timeout
    \/ FetchSamples
    \/ TestConnection
    \/ Discard

SpecLims == InitLims /\ [][NextLims]_vars

----------------------------------------------------------------------------
(* Properties *)

\* calculateMassBalance reached its return statement
Returned == pc = "responded" /\ ~Threw(calculation)

\* the request body as the integers it was built from
InitialApi == request.initial_api.n
StressedApi == request.stressed_api.n
InitialDegradants == request.initial_degradants.n
StressedDegradants == request.stressed_degradants.n
DeltaApi == InitialApi - StressedApi

\* initial_api > 0 and no negative content
ValidInput ==
    /\ InitialApi > 0
    /\ StressedApi >= 0
    /\ InitialDegradants >= 0
    /\ StressedDegradants >= 0

\* C1: a call with initial_api <= 0 fails with an error and returns no result
\* record to the caller
InvalidInputRejected ==
    (pc = "responded" /\ InitialApi <= 0) =>
        (Threw(calculation) /\ response.status = 400)

SelectionFollowsDegradationPercent ==
    (Returned /\ ValidInput /\ StressedApi > 0) =>
        /\ 100 * DeltaApi < 2 * InitialApi => calculation.recommended_method = "AMB"
        /\ (5 * InitialApi <= 100 * DeltaApi /\ 100 * DeltaApi <= 20 * InitialApi)
              => calculation.recommended_method = "RMB"
        /\ 100 * DeltaApi > 20 * InitialApi => calculation.recommended_method = "CIMB"

\* C4: in the returned outcome lower_ci <= point <= upper_ci, for LK-IMB and
\* for CIMB
IntervalContainsPoint ==
    (Returned /\ ValidInput) =>
        /\ Le(calculation.results.lk_imb_lower_ci, calculation.results.lk_imb)
        /\ Le(calculation.results.lk_imb, calculation.results.lk_imb_upper_ci)
        /\ Le(calculation.results.cimb_lower_ci, calculation.results.cimb)
        /\ Le(calculation.results.cimb, calculation.results.cimb_upper_ci)

\* both intervals are proper and the CIMB one differs from the LK-IMB one
IntervalContainsPointWitness ==
    /\ Returned /\ ValidInput
    /\ StressedDegradants > 0
    /\ Lt(calculation.results.lk_imb_lower_ci, calculation.results.lk_imb)
    /\ Lt(calculation.results.lk_imb, calculation.results.lk_imb_upper_ci)
    /\ Lt(calculation.results.cimb_lower_ci, calculation.results.cimb)
    /\ Lt(calculation.results.cimb, calculation.results.cimb_upper_ci)
    /\ calculation.results.cimb_upper_ci # calculation.results.lk_imb_upper_ci

\* C5: status is determined by the reported recommended_value: PASS exactly in
\* [98, 102], ALERT exactly in [95, 105] outside [98, 102], OOS otherwise
StatusFromReportedValue ==
    Returned =>
        LET v == calculation.recommended_value
            pass == Ge(v, Int2Num(98)) /\ Le(v, Int2Num(102))
            alert == Ge(v, Int2Num(95)) /\ Le(v, Int2Num(105)) /\ ~pass
        IN  /\ calculation.status = "PASS" <=> pass
            /\ calculation.status = "ALERT" <=> alert
            /\ calculation.status = "OOS" <=> (~pass /\ ~alert)

\* C6: with delta_api = 0 RMB has no value and is not recommended; whenever RMB
\* is recommended it has a numeric value and recommended_value is that value
RmbDefinedWhenRecommended ==
    Returned =>
        /\ DeltaApi = 0 =>
              /\ calculation.results.rmb = Null
              /\ calculation.recommended_method # "RMB"
        /\ calculation.recommended_method = "RMB" =>
              /\ IsFinite(calculation.results.rmb)
              /\ calculation.recommended_value = calculation.results.rmb

\* no API was lost: RMB is the explicit no-value and AMB is recommended
RmbDefinedWhenRecommendedWitness ==
    /\ Returned /\ ValidInput
    /\ DeltaApi = 0
    /\ StressedDegradants > InitialDegradants
    /\ calculation.results.rmb = Null
    /\ calculation.recommended_method = "AMB"

\* the bands of a point estimate
InLow(point) == Ge(point, Int2Num(98)) /\ Le(point, Int2Num(102))
InModerate(point) ==
    \/ Ge(point, Int2Num(95)) /\ Lt(point, Int2Num(98))
    \/ Gt(point, Int2Num(102)) /\ Le(point, Int2Num(105))
Banded(level, point) ==
    /\ level \in {"LOW", "MODERATE", "HIGH"}
    /\ level = "LOW" <=> InLow(point)
    /\ level = "MODERATE" <=> InModerate(point)
    /\ level = "HIGH" <=> (~InLow(point) /\ ~InModerate(point))

\* C7: the risk level of a point is LOW exactly in [98, 102], MODERATE exactly in
\* [95, 98) and (102, 105], HIGH for every other value, for the LK-IMB point and
\* for the CIMB point alike
RiskBands ==
    Returned =>
        /\ Banded(calculation.results.lk_imb_risk_level, frame.lk_imb_point)
        /\ Banded(calculation.results.cimb_risk_level, frame.cimb_point)

\* the LK-IMB point sits on the boundary 98, the last value of the LOW band
RiskBandsWitness ==
    /\ Returned /\ ValidInput
    /\ frame.lk_imb_point = Int2Num(98)
    /\ calculation.results.lk_imb_risk_level = "LOW"

\* C8: the recommended method is one of AMB, RMB, LK-IMB, CIMB and
\* recommended_value is the outcome's reported value of that method
RecommendedValueIsMethodValue ==
    (Returned /\ ValidInput) =>
        /\ calculation.recommended_method \in {"AMB", "RMB", "LK-IMB", "CIMB"}
        /\ calculation.recommended_method = "AMB" =>
              calculation.recommended_value = calculation.results.amb
        /\ calculation.recommended_method = "RMB" =>
              calculation.recommended_value = calculation.results.rmb
        /\ calculation.recommended_method = "LK-IMB" =>
              calculation.recommended_value = calculation.results.lk_imb
        /\ calculation.recommended_method = "CIMB" =>
              calculation.recommended_value = calculation.results.cimb

\* LK-IMB is recommended while the five reported values all differ
RecommendedValueIsMethodValueWitness ==
    /\ Returned /\ ValidInput
    /\ calculation.recommended_method = "LK-IMB"
    /\ calculation.recommended_value = calculation.results.lk_imb
    /\ Cardinality({calculation.results.smb, calculation.results.amb,
                    calculation.results.rmb, calculation.results.lk_imb,
                    calculation.results.cimb}) = 5

\* the second of two calls with the same body has returned
Repeated == pc = "responded" /\ prev # None /\ ~Threw(prev) /\ ~Threw(calculation)

Optional(v) == v = Undefined \/ (IsFinite(v) /\ v.n > 0)
OptionalInputsValidOrAbsent ==
    /\ Optional(request.rrf)
    /\ Optional(request.degradant_mw)
    /\ Optional(request.parent_mw)
    /\ (request.stress_type = Undefined \/ request.stress_type.k = "string")

\* C10: absent optional fields raise no error and mean neutral correction:
\* lambda = 1/rrf or 1, omega = parent_mw/degradant_mw or 1, stoichiometric_factor
\* = 1 without both molecular weights; with none of them both points are
\* (stressed_api + stressed_degradants) / initial_api * 100
NeutralCorrectionDefaults ==
    (pc = "responded" /\ ValidInput /\ OptionalInputsValidOrAbsent) =>
        /\ ~Threw(calculation)
        /\ response.status = 200
        /\ frame.lambda = (IF request.rrf = Undefined THEN Int2Num(1)
                           ELSE Rat(request.rrf.d, request.rrf.n))
        /\ frame.omega =
              (IF request.degradant_mw = Undefined \/ request.parent_mw = Undefined
               THEN Int2Num(1)
               ELSE Rat(request.parent_mw.n * request.degradant_mw.d,
                        request.parent_mw.d * request.degradant_mw.n))
        /\ (request.degradant_mw = Undefined \/ request.parent_mw = Undefined)
              => frame.stoichiometric_factor = Int2Num(1)
        /\ (request.rrf = Undefined /\ request.degradant_mw = Undefined
              /\ request.parent_mw = Undefined)
              => /\ frame.lambda = Int2Num(1)
                 /\ frame.omega = Int2Num(1)
                 /\ frame.stoichiometric_factor = Int2Num(1)
                 /\ frame.lk_imb_point
                       = Rat((StressedApi + StressedDegradants) * 100, InitialApi)
                 /\ frame.cimb_point = frame.lk_imb_point

\* only the degradant's molecular weight is given, under acid stress
NeutralCorrectionDefaultsWitness ==
    /\ Returned /\ ValidInput /\ OptionalInputsValidOrAbsent
    /\ request.degradant_mw # Undefined
    /\ request.parent_mw = Undefined
    /\ request.rrf = Undefined
    /\ StressedDegradants > 0
    /\ frame.stoichiometric_factor = Int2Num(1)
    /\ frame.cimb_point = Rat((StressedApi + StressedDegradants) * 100, InitialApi)

----------------------------------------------------------------------------
(* Correction factors *)

BothWeights ==
    /\ request.degradant_mw.k = "number" /\ request.degradant_mw.n > 0
    /\ request.parent_mw.k = "number" /\ request.parent_mw.n > 0

\* the text s is the lower-case word w up to the case of its letters
SameWord(s, w) ==
    /\ Len(s) = Len(w)
    /\ \A i \in DOMAIN w :
          \/ s[i] = w[i]
          \/ \E j \in DOMAIN lowerCase : lowerCase[j] = w[i] /\ upperCase[j] = s[i]

StressIs(w) == request.stress_type.k = "string" /\ SameWord(request.stress_type.s, w)

\* x is the quotient n / d of two integers
IsQuotient(x, n, d) == IsFinite(x) /\ x.n * d = n * x.d

\* C11: with both molecular weights in the request and a stress type that is a
\* text or left out, the stoichiometric factor is (parent_mw + 18) / degradant_mw
\* for acid and base, (parent_mw + 16) / degradant_mw for oxidative and omega
\* (parent_mw / degradant_mw) for every other value, whatever the case of the
\* letters of stress_type.
StoichiometricFactorByStressType ==
    (Returned /\ BothWeights) =>
        LET p == request.parent_mw.n
            d == request.degradant_mw.n
            factor == frame.stoichiometric_factor
        IN  /\ IsQuotient(frame.omega, p, d)
            /\ IF StressIs(<<"a", "c", "i", "d">>) \/ StressIs(<<"b", "a", "s", "e">>)
               THEN IsQuotient(factor, p + 18, d)
               ELSE IF StressIs(<<"o", "x", "i", "d", "a", "t", "i", "v", "e">>)
               THEN IsQuotient(factor, p + 16, d)
               ELSE factor = frame.omega

StoichiometricFactorByStressTypeWitness ==
    /\ Returned /\ BothWeights
    /\ request.stress_type = Str(<<"B", "a", "s", "E">>)
    /\ frame.stoichiometric_factor = Rat(42, 25)
    /\ frame.omega = Rat(24, 25)

\* C12: the correction factors are computed without an error for every request:
\* whatever rrf, degradant_mw, parent_mw and stress_type it carries, the call
\* returns, with a number for lambda, omega and stoichiometric_factor.
CorrectionFactorsAlwaysProduced ==
    (pc = "responded" /\ ValidInput) =>
        /\ ~Threw(calculation)
        /\ IsFinite(calculation.correction_factors.lambda)
        /\ IsFinite(calculation.correction_factors.omega)
        /\ IsFinite(calculation.correction_factors.stoichiometric_factor)

----------------------------------------------------------------------------
(* Closure estimates *)

\* the request's optional inputs as the numbers the formulas use
Rrf == IF request.rrf = Undefined THEN 1 ELSE request.rrf.n
ParentMw == request.parent_mw.n
DegradantMw == request.degradant_mw.n

\* x has at most the given number of decimals and is within half a unit of the
\* last one from y
RoundedTo(x, y, digits) ==
    /\ IsFinite(x) /\ IsFinite(y)
    /\ Pow10(digits) % x.d = 0
    /\ LET diff == Sub(x, y) IN 2 * Pow10(digits) * Abs(diff.n) <= diff.d

\* x = (stressed_api + stressed_degradants * lambda * factor) / initial_api * 100
IsIntegratedBalance(x, factor) ==
    x = Mul(Div(Add(request.stressed_api,
                    Mul(request.stressed_degradants, Mul(frame.lambda, factor))),
                request.initial_api),
            Int2Num(100))

\* C13: for a valid input, SMB = stressed_api + stressed_degradants,
\* AMB = SMB / (initial_api + initial_degradants) * 100,
\* RMB = (stressed_degradants - initial_degradants) / (initial_api - stressed_api) * 100
\* when delta_api is not 0, and the LK-IMB and CIMB points are
\* (stressed_api + stressed_degradants * lambda * f) / initial_api * 100 with f = omega
\* and f = stoichiometric_factor; the record reports each rounded to 2 decimals.
ClosureEstimatesMatchFormulas ==
    (Returned /\ ValidInput /\ OptionalInputsValidOrAbsent) =>
        /\ frame.smb = Int2Num(StressedApi + StressedDegradants)
        /\ IsQuotient(frame.amb, 100 * (StressedApi + StressedDegradants),
                      InitialApi + InitialDegradants)
        /\ DeltaApi # 0 =>
              IsQuotient(frame.rmb, 100 * (StressedDegradants - InitialDegradants), DeltaApi)
        /\ IsQuotient(frame.lambda, 1, Rrf)
        /\ IsIntegratedBalance(frame.lk_imb_point, frame.omega)
        /\ IsIntegratedBalance(frame.cimb_point, frame.stoichiometric_factor)
        /\ RoundedTo(calculation.results.smb, frame.smb, 2)
        /\ RoundedTo(calculation.results.amb, frame.amb, 2)
        /\ DeltaApi # 0 => RoundedTo(calculation.results.rmb, frame.rmb, 2)
        /\ RoundedTo(calculation.results.lk_imb, frame.lk_imb_point, 2)
        /\ RoundedTo(calculation.results.cimb, frame.cimb_point, 2)

\* degradants before the stress, an API loss, and a CIMB point that differs from
\* the LK-IMB point
ClosureEstimatesMatchFormulasWitness ==
    /\ Returned /\ ValidInput /\ OptionalInputsValidOrAbsent
    /\ InitialDegradants = 1 /\ StressedDegradants = 3 /\ DeltaApi = 4 /\ InitialApi = 100
    /\ frame.amb = Rat(9900, 101)
    /\ frame.rmb = Int2Num(50)
    /\ frame.lk_imb_point # frame.cimb_point

----------------------------------------------------------------------------
(* Confidence index *)

----------------------------------------------------------------------------
(* Requests of several clients *)

\* the response to a request served with no other request around it
Alone(data, uuid, now) ==
    IF toLowerCaseThrows(data) THEN [status |-> 400, body |-> [error |-> TypeError.message]]
    ELSE [status |-> 200, body |-> json(returned(locals(data), uuid, now))]

\* that response for each body the clients send, under one id and time
AloneResponses == [data \in ConcurrentRequests |-> Alone(data, "uuid-a", 0)]

----------------------------------------------------------------------------
(* Composite response factor *)

Called(fn) == call # None /\ call.fn = fn

\* a channel input that is left out, null or 0
Absent(v) == v.k \in {"undefined", "null"} \/ (v.k = "number" /\ v.n = 0)

ElsdPresent == ~Absent(call.arg.elsd_rrf)
MsPresent == ~Absent(call.arg.ms_intensity)
UvRrf == IF Absent(call.arg.uv_rrf) THEN Int2Num(1) ELSE call.arg.uv_rrf

\* C16: calculateCompositeRRF returns an outcome for every detection input, one
\* with no channel field included; with neither an ELSD factor nor an MS intensity
\* the outcome is the UV-only one: composite_rrf is uv_rrf as given (1.0 when
\* uv_rrf is absent), the coverage is 100 and UV is the only source.
UvOnlyWithoutOtherChannels ==
    Called("calculateCompositeRRF") =>
        /\ DOMAIN outcome = {"composite_rrf", "detection_coverage_pct",
                             "detection_sources", "method_completeness"}
        /\ IsFinite(outcome.composite_rrf)
        /\ (~ElsdPresent /\ ~MsPresent) =>
              /\ outcome.composite_rrf = UvRrf
              /\ outcome.detection_coverage_pct = 100
              /\ outcome.detection_sources = "UV Only"

\* a UV factor that is not 1 and has more than two decimals to lose, alone
UvOnlyWithoutOtherChannelsWitness ==
    /\ Called("calculateCompositeRRF")
    /\ call.arg = [uv_rrf |-> Rat(6, 5), elsd_rrf |-> Undefined, ms_intensity |-> Undefined]
    /\ outcome.composite_rrf = Rat(6, 5)
    /\ outcome.detection_sources = "UV Only"

\* the MS intensity over 1e6, held between 0.5 and 2.0
MsFactor ==
    LET counts == call.arg.ms_intensity.n IN
    IF counts <= 500000 THEN Rat(1, 2)
    ELSE IF counts >= 2000000 THEN Int2Num(2)
    ELSE Rat(counts, 1000000)

\* C17: with an ELSD factor or an MS intensity present, composite_rrf is the
\* average of uv_rrf (weight 1), elsd_rrf (weight 2, if present) and the MS factor
\* (weight 0.5, if present; ms_intensity / 1e6 held within [0.5, 2.0]), rounded to
\* 2 decimals, and detection_sources names the active channels in the order UV,
\* ELSD, MS.
CompositeRrfIsWeightedAverage ==
    (Called("calculateCompositeRRF") /\ (ElsdPresent \/ MsPresent)) =>
        LET elsdTerm == IF ElsdPresent THEN Mul(Int2Num(2), call.arg.elsd_rrf) ELSE Int2Num(0)
            msTerm == IF MsPresent THEN Mul(Rat(1, 2), MsFactor) ELSE Int2Num(0)
            weights == Rat(2 + (IF ElsdPresent THEN 4 ELSE 0) + (IF MsPresent THEN 1 ELSE 0), 2)
            average == Div(Add(UvRrf, Add(elsdTerm, msTerm)), weights)
        IN  /\ RoundedTo(outcome.composite_rrf, average, 2)
            /\ outcome.detection_sources =
                  (IF ElsdPresent /\ MsPresent THEN "UV + ELSD + MS"
                   ELSE IF ElsdPresent THEN "UV + ELSD"
                   ELSE "UV + MS")

\* all three channels, the MS intensity above the range: (1.2 + 3 + 1) / 3.5
CompositeRrfIsWeightedAverageWitness ==
    /\ Called("calculateCompositeRRF")
    /\ call.arg = [uv_rrf |-> Rat(6, 5), elsd_rrf |-> Rat(3, 2),
                   ms_intensity |-> Int2Num(3000000)]
    /\ outcome.composite_rrf = Rat(149, 100)
    /\ outcome.detection_sources = "UV + ELSD + MS"

\* C18: detection_coverage_pct is 100, plus 20 with ELSD present, plus 15 with MS
\* present, for every input; it is not held at 100, its values being 100, 115, 120
\* and 135.
CoverageIsBonusSum ==
    Called("calculateCompositeRRF") =>
        /\ outcome.detection_coverage_pct =
              100 + (IF ElsdPresent THEN 20 ELSE 0) + (IF MsPresent THEN 15 ELSE 0)
        /\ outcome.detection_coverage_pct \in {100, 115, 120, 135}

CoverageIsBonusSumWitness ==
    /\ Called("calculateCompositeRRF")
    /\ ElsdPresent /\ MsPresent
    /\ outcome.detection_coverage_pct = 135

----------------------------------------------------------------------------
(* UV-silent degradants and volatile loss *)

\* a degradant amount of the call in halves of a percent, 0 when left out
Halves(v) == IF v = Undefined THEN 0 ELSE (2 * v.n) \div v.d
GapHalves ==
    LET difference == Halves(call.arg.stressed_degradants_elsd)
                        - Halves(call.arg.stressed_degradants_uv)
    IN  IF difference > 0 THEN difference ELSE 0
Total ==
    IF call.arg.stressed_degradants_total = Undefined THEN 0
    ELSE call.arg.stressed_degradants_total.n

\* detected exactly when gap > 0.5; SIGNIFICANT when gap > 2.0, MODERATE when
\* 0.5 < gap <= 2.0, NEGLIGIBLE otherwise
GapBands ==
    /\ outcome.uv_silent_detected <=> GapHalves > 1
    /\ outcome.impact_on_mb =
          (IF GapHalves > 4 THEN "SIGNIFICANT"
           ELSE IF GapHalves > 1 THEN "MODERATE"
           ELSE "NEGLIGIBLE")
    /\ outcome.uv_silent_detected <=> outcome.impact_on_mb # "NEGLIGIBLE"

\* C19 as stated: with gap = max(0, stressed_degradants_elsd -
\* stressed_degradants_uv), the reported percentage is gap / total * 100 when
\* total > 0 and 0 otherwise, and detection and impact follow the bands of the gap.
UvSilentPctIsExactQuotient ==
    Called("detectUVSilentDegradants") =>
        /\ outcome.uv_silent_degradants_pct =
              (IF Total > 0 THEN Rat(100 * GapHalves, 2 * Total) ELSE Int2Num(0))
        /\ GapBands

\* C19, amended: the reported percentage is gap / total * 100 rounded to one
\* decimal when total > 0 and 0 otherwise; detection and impact follow the bands
\* of the gap.
UvSilentPctIsRoundedQuotient ==
    Called("detectUVSilentDegradants") =>
        /\ IF Total > 0
           THEN RoundedTo(outcome.uv_silent_degradants_pct,
                          Rat(100 * GapHalves, 2 * Total), 1)
           ELSE outcome.uv_silent_degradants_pct = Int2Num(0)
        /\ GapBands

\* a gap of 2.0, on the boundary of the bands, over a total of 3: 66.666... as 66.7
UvSilentPctIsRoundedQuotientWitness ==
    /\ Called("detectUVSilentDegradants")
    /\ GapHalves = 4 /\ Total = 3
    /\ outcome.uv_silent_degradants_pct = Rat(667, 10)
    /\ outcome.uv_silent_detected
    /\ outcome.impact_on_mb = "MODERATE"

\* the loss of the call in halves of a percent
LossHalves ==
    LET actual == Halves(call.arg.stressed_api) + Halves(call.arg.stressed_degradants)
                    + Halves(call.arg.gc_ms_volatiles)
        difference == Halves(call.arg.initial_api) - actual
    IN  IF difference > 0 THEN difference ELSE 0

\* detected exactly when loss > 2.0 or gc_ms_volatiles > 0; HIGH when loss > 5.0,
\* MODERATE when 2.0 < loss <= 5.0, LOW otherwise
LossBands ==
    /\ outcome.volatile_loss_detected <=>
          (LossHalves > 4 \/ Halves(call.arg.gc_ms_volatiles) > 0)
    /\ outcome.severity =
          (IF LossHalves > 10 THEN "HIGH"
           ELSE IF LossHalves > 4 THEN "MODERATE"
           ELSE "LOW")

\* C20 as stated: with loss = max(0, initial_api - (stressed_api +
\* stressed_degradants + gc_ms_volatiles)), the reported percentage is
\* loss / initial_api * 100, and detection and severity follow the bands of the
\* loss.
VolatileLossPctIsExactQuotient ==
    (Called("estimateVolatileLoss") /\ call.arg.initial_api.n > 0) =>
        /\ outcome.volatile_loss_pct = Rat(100 * LossHalves, 2 * call.arg.initial_api.n)
        /\ LossBands

\* C20, amended: the reported percentage is loss / initial_api * 100 rounded to
\* one decimal (not a number when initial_api is 0); detection and severity follow
\* the bands of the loss.
VolatileLossPctIsRoundedQuotient ==
    Called("estimateVolatileLoss") =>
        /\ IF call.arg.initial_api.n > 0
           THEN RoundedTo(outcome.volatile_loss_pct,
                          Rat(100 * LossHalves, 2 * call.arg.initial_api.n), 1)
           ELSE IsNaN(outcome.volatile_loss_pct)
        /\ LossBands

\* a loss of 5.0, on the boundary of the bands, of an initial 30: 16.666... as 16.7
VolatileLossPctIsRoundedQuotientWitness ==
    /\ Called("estimateVolatileLoss")
    /\ LossHalves = 10 /\ call.arg.initial_api = Int2Num(30)
    /\ outcome.volatile_loss_pct = Rat(167, 10)
    /\ outcome.severity = "MODERATE"
    /\ outcome.volatile_loss_detected

----------------------------------------------------------------------------
(* Method completeness *)

\* the detector is present in the argument of the call: uv unless it is given as
\* false, the others only when given as true
Present(key) == IF key \in DOMAIN call.arg THEN call.arg[key] ELSE key = "uv"

\* the recommendation for a missing detector, and the place of each in the list
Advice ==
    [uv |-> [rank |-> 1, priority |-> "HIGH", message |-> "Add UV detection"],
     elsd |-> [rank |-> 2, priority |-> "MODERATE", message |-> "Add ELSD/CAD"],
     ms |-> [rank |-> 3, priority |-> "INFO", message |-> "Add LC-MS"],
     gc_ms |-> [rank |-> 4, priority |-> "MODERATE", message |-> "Add GC-MS"]]

\* the detector a recommendation is about
AdviceKey(recommendation) ==
    CHOOSE key \in DetectorKeys : Advice[key].message = recommendation.message

\* C21: the completeness score is 25 times the number of detectors present among
\* UV, ELSD, MS and GC-MS; each missing detector has exactly one recommendation
\* (HIGH for UV, MODERATE for ELSD, INFO for MS, MODERATE for GC-MS), in that
\* order, and no other is made; so score + 25 * (number of recommendations) = 100
\* and 0 <= score <= 100.
ScoreCountsPresentDetectors ==
    Called("assessMethodCompleteness") =>
        LET recommendations == outcome.recommendations
            missing == {key \in DetectorKeys : ~Present(key)}
        IN  /\ outcome.completeness_score = 25 * Cardinality(DetectorKeys \ missing)
            /\ outcome.completeness_pct = outcome.completeness_score
            /\ Len(recommendations) = Cardinality(missing)
            /\ \A i \in DOMAIN recommendations :
                  /\ \E key \in missing :
                        /\ recommendations[i].message = Advice[key].message
                        /\ recommendations[i].priority = Advice[key].priority
                  /\ \A j \in DOMAIN recommendations :
                        i < j => Advice[AdviceKey(recommendations[i])].rank
                                    < Advice[AdviceKey(recommendations[j])].rank
            /\ outcome.completeness_score + 25 * Len(recommendations) = 100
            /\ outcome.completeness_score \in 0 .. 100

\* UV by default, ELSD given as false, MS and GC-MS left out: three recommendations
ScoreCountsPresentDetectorsWitness ==
    /\ Called("assessMethodCompleteness")
    /\ call.arg = [elsd |-> FALSE]
    /\ outcome.completeness_score = 25
    /\ Len(outcome.recommendations) = 3
    /\ outcome.recommendations[2].priority = "INFO"

----------------------------------------------------------------------------
(* Confidence intervals *)

\* half is 4.303 * combined_std, with combined_std = sqrt(v) / initial_api * 100
\* and v = (0.025 * stressed_api)^2 + (0.025 * stressed_degradants)^2 * (lambda * w)^2,
\* the root being taken to three decimals
IsHalfWidth(half, w) ==
    LET v == Add(Pow2(Mul(Rat(25, 1000), request.stressed_api)),
                 Mul(Pow2(Mul(Rat(25, 1000), request.stressed_degradants)),
                     Pow2(Mul(frame.lambda, w))))
        root == Div(Mul(Div(half, Rat(4303, 1000)), request.initial_api), Int2Num(100))
        thousandths == (1000 * root.n) \div root.d
        millionths == ScaledFloor(v.n, v.d, 6)
    IN  /\ IsFinite(root) /\ root.n >= 0 /\ 1000 % root.d = 0
        /\ thousandths * thousandths <= millionths
        /\ millionths < (thousandths + 1) * (thousandths + 1)

\* C22: the LK-IMB and the CIMB interval are symmetric about their point, with
\* half-width t_critical * combined_std, t_critical being the df = 2 value 4.303
\* and combined_std = sqrt((0.025 * stressed_api)^2 + (0.025 * stressed_degradants)^2
\* * (lambda * w)^2) / initial_api * 100, w = omega for LK-IMB and w =
\* stoichiometric_factor for CIMB; with equal w the two intervals have the same
\* half-width.
IntervalHalfWidth ==
    (Returned /\ ValidInput /\ OptionalInputsValidOrAbsent) =>
        LET lkHalf == Sub(frame.lk_imb_upper_ci, frame.lk_imb_point)
            cimbHalf == Sub(frame.cimb_upper_ci, frame.cimb_point)
        IN  /\ t_critical = Rat(4303, 1000)
            /\ Sub(frame.lk_imb_point, frame.lk_imb_lower_ci) = lkHalf
            /\ Sub(frame.cimb_point, frame.cimb_lower_ci) = cimbHalf
            /\ IsHalfWidth(lkHalf, frame.omega)
            /\ IsHalfWidth(cimbHalf, frame.stoichiometric_factor)
            /\ frame.omega = frame.stoichiometric_factor => lkHalf = cimbHalf

\* acid stress with both molecular weights: the two half-widths differ
IntervalHalfWidthWitness ==
    /\ Returned /\ ValidInput /\ OptionalInputsValidOrAbsent
    /\ StressedDegradants = 5 /\ InitialApi = 100 /\ StressedApi = 90
    /\ frame.omega # frame.stoichiometric_factor
    /\ Sub(frame.lk_imb_upper_ci, frame.lk_imb_point)
          # Sub(frame.cimb_upper_ci, frame.cimb_point)
    /\ Lt(calculation.results.lk_imb_upper_ci, calculation.results.cimb_upper_ci)

----------------------------------------------------------------------------
(* t-distribution lookup *)

TableKeys == {tTableKeys[i] : i \in DOMAIN tTableKeys}

----------------------------------------------------------------------------
(* Diagnostic message *)

WithinLimits ==
    "Mass balance is within acceptable limits (98-102%). Method demonstrates good recovery."
LowerBorderline ==
    "Mass balance is at lower borderline. Monitor closely and consider method validation."
UpperBorderline ==
    "Mass balance is at upper borderline. Verify peak purity and check for co-elution."
BelowLimits ==
    "Mass balance is below acceptable limits. Investigate for undetected degradation products or analytical method deficiencies."
ExceedsLimits ==
    "Mass balance exceeds 105%. Check for analytical interference, impurity peaks being misidentified as API, or calibration issues."

\* C24: in every outcome the diagnostic message is one of the five fixed messages
\* and agrees with the status: the within-limits message exactly with PASS, a
\* borderline message exactly with ALERT, the below-limits or exceeds-105% message
\* exactly with OOS.
MessageAgreesWithStatus ==
    Returned =>
        /\ calculation.diagnostic_message
              \in {WithinLimits, LowerBorderline, UpperBorderline, BelowLimits, ExceedsLimits}
        /\ calculation.diagnostic_message = WithinLimits <=> calculation.status = "PASS"
        /\ calculation.diagnostic_message \in {LowerBorderline, UpperBorderline}
              <=> calculation.status = "ALERT"
        /\ calculation.diagnostic_message \in {BelowLimits, ExceedsLimits}
              <=> calculation.status = "OOS"

----------------------------------------------------------------------------
(* Consequences of the selection order *)

\* degradation_level <= 20, for an initial API above 0
LevelAtMost20 == InitialApi > 0 /\ 100 * DeltaApi <= 20 * InitialApi

\* C25: when CIMB is recommended at a degradation level of at most 20, the status
\* is OOS (the CIMB risk level is then HIGH); when LK-IMB is recommended, the
\* degradation level is at most 20, the CIMB risk level is not HIGH and delta_api
\* is in [2, 5) or above 20.
SelectionConsequences ==
    Returned =>
        /\ (calculation.recommended_method = "CIMB" /\ LevelAtMost20) =>
              /\ calculation.results.cimb_risk_level = "HIGH"
              /\ calculation.status = "OOS"
        /\ calculation.recommended_method = "LK-IMB" =>
              /\ LevelAtMost20
              /\ calculation.results.cimb_risk_level # "HIGH"
              /\ (DeltaApi >= 2 /\ DeltaApi < 5) \/ DeltaApi > 20

\* CIMB recommended at 3% degradation, its point above 105
SelectionConsequencesWitness ==
    /\ Returned
    /\ InitialApi = 100 /\ DeltaApi = 3
    /\ calculation.recommended_method = "CIMB"
    /\ Gt(frame.cimb_point, Int2Num(105))
    /\ calculation.status = "OOS"

----------------------------------------------------------------------------
(* CIMB against LK-IMB *)

\* a half-width as the thousandths of the root it is 4.303 / initial_api * 100
\* times of
RootThousandths(half) ==
    LET root == Div(Mul(Div(half, Rat(4303, 1000)), request.initial_api), Int2Num(100))
    IN  (1000 * root.n) \div root.d

\* the stress type adds mass to the degradant: acid, base or oxidative
AddsMass ==
    \/ StressIs(<<"a", "c", "i", "d">>)
    \/ StressIs(<<"b", "a", "s", "e">>)
    \/ StressIs(<<"o", "x", "i", "d", "a", "t", "i", "v", "e">>)

\* C26: for a valid input (initial_api > 0, stressed_degradants >= 0, rrf and the
\* molecular weights positive when present) stoichiometric_factor >= omega, so the
\* CIMB point is at least the LK-IMB point and the CIMB interval at least as wide;
\* when the stress type is not acid, base or oxidative, or a molecular weight is
\* absent, point, interval and risk level of the two are the same.
CimbAtLeastLkImb ==
    (Returned /\ ValidInput /\ OptionalInputsValidOrAbsent) =>
        LET lkHalf == Sub(frame.lk_imb_upper_ci, frame.lk_imb_point)
            cimbHalf == Sub(frame.cimb_upper_ci, frame.cimb_point)
        IN  /\ Sub(frame.stoichiometric_factor, frame.omega).n >= 0
            /\ Sub(frame.cimb_point, frame.lk_imb_point).n >= 0
            /\ RootThousandths(cimbHalf) >= RootThousandths(lkHalf)
            /\ (~AddsMass \/ ~BothWeights) =>
                  /\ frame.cimb_point = frame.lk_imb_point
                  /\ frame.cimb_lower_ci = frame.lk_imb_lower_ci
                  /\ frame.cimb_upper_ci = frame.lk_imb_upper_ci
                  /\ frame.cimb_risk_level = frame.lk_imb_risk_level
                  /\ calculation.results.cimb = calculation.results.lk_imb
                  /\ calculation.results.cimb_lower_ci = calculation.results.lk_imb_lower_ci
                  /\ calculation.results.cimb_upper_ci = calculation.results.lk_imb_upper_ci
                  /\ calculation.results.cimb_risk_level
                        = calculation.results.lk_imb_risk_level

\* acid stress with both molecular weights and degradants: CIMB strictly above
\* LK-IMB, with the wider interval and another risk level
CimbAtLeastLkImbWitness ==
    /\ Returned /\ ValidInput /\ OptionalInputsValidOrAbsent
    /\ AddsMass /\ BothWeights
    /\ InitialApi = 100 /\ StressedApi = 95 /\ StressedDegradants = 5
    /\ Sub(frame.cimb_point, frame.lk_imb_point).n > 0
    /\ RootThousandths(Sub(frame.cimb_upper_ci, frame.cimb_point))
          > RootThousandths(Sub(frame.lk_imb_upper_ci, frame.lk_imb_point))
    /\ frame.cimb_risk_level # frame.lk_imb_risk_level

----------------------------------------------------------------------------
(* The completeness record of the composite RRF *)

\* the values detection_sources can take, and those naming ELSD and MS
DetectionSources == {"UV Only", "UV + ELSD", "UV + MS", "UV + ELSD + MS"}
ElsdSources == {"UV + ELSD", "UV + ELSD + MS"}
MsSources == {"UV + MS", "UV + ELSD + MS"}

\* C27: the method_completeness of every composite-RRF result has
\* chromophore_coverage true and volatile_coverage false, a score of 25, 50 or 75,
\* the "Add GC-MS" recommendation in its list, and non_uv_coverage and
\* structural_confirmation true exactly when ELSD and MS are named in
\* detection_sources.
CompositeCompleteness ==
    Called("calculateCompositeRRF") =>
        LET completeness == outcome.method_completeness
        IN  /\ completeness.chromophore_coverage = TRUE
            /\ completeness.volatile_coverage = FALSE
            /\ completeness.completeness_score \in {25, 50, 75}
            /\ \E i \in DOMAIN completeness.recommendations :
                  completeness.recommendations[i].message = "Add GC-MS"
            /\ outcome.detection_sources \in DetectionSources
            /\ completeness.non_uv_coverage
                  = (outcome.detection_sources \in ElsdSources)
            /\ completeness.structural_confirmation
                  = (outcome.detection_sources \in MsSources)

\* a result with ELSD and without MS: score 50, ELSD covered, MS not
CompositeCompletenessWitness ==
    /\ Called("calculateCompositeRRF")
    /\ ElsdPresent /\ ~MsPresent
    /\ outcome.detection_sources = "UV + ELSD"
    /\ outcome.method_completeness.completeness_score = 50
    /\ outcome.method_completeness.non_uv_coverage
    /\ ~outcome.method_completeness.structural_confirmation
    /\ Len(outcome.method_completeness.recommendations) = 2

----------------------------------------------------------------------------
(* Severity, detection and recommendation of a volatile loss *)

SeverityRank == [LOW |-> 0, MODERATE |-> 1, HIGH |-> 2]

\* the amounts of volatiles above that of the call
MoreVolatiles ==
    {gc \in {Rat(1, 2), Int2Num(3), Int2Num(4)} :
        Halves(gc) > Halves(call.arg.gc_ms_volatiles)}

\* the severity of the call had GC-MS found gc
SeverityWith(gc) ==
    estimateVolatileLoss([call.arg EXCEPT !.gc_ms_volatiles = gc]).severity

\* C28: in every volatile-loss result a severity other than LOW implies
\* volatile_loss_detected; the recommendation is "Perform GC-MS headspace analysis"
\* exactly when the severity is not LOW; gc_ms_confirmation is true exactly when
\* gc_ms_volatiles > 0; and with more gc_ms_volatiles and the other inputs as they
\* are the severity is never higher.
SeverityAgreesWithDetection ==
    Called("estimateVolatileLoss") =>
        /\ outcome.severity # "LOW" => outcome.volatile_loss_detected = TRUE
        /\ outcome.recommendation \in {"Perform GC-MS headspace analysis",
                                       "No significant volatile loss"}
        /\ (outcome.recommendation = "Perform GC-MS headspace analysis")
              <=> outcome.severity # "LOW"
        /\ outcome.gc_ms_confirmation = (Halves(call.arg.gc_ms_volatiles) > 0)
        /\ \A gc \in MoreVolatiles :
              SeverityRank[SeverityWith(gc)] <= SeverityRank[outcome.severity]

\* a loss of 7 with nothing found by GC-MS is HIGH, detected, with the GC-MS
\* recommendation; it would be MODERATE had GC-MS found 3
SeverityAgreesWithDetectionWitness ==
    /\ Called("estimateVolatileLoss")
    /\ call.arg.initial_api = Int2Num(100) /\ call.arg.stressed_api = Int2Num(93)
    /\ call.arg.stressed_degradants = Int2Num(0)
    /\ call.arg.gc_ms_volatiles = Int2Num(0)
    /\ outcome.severity = "HIGH"
    /\ outcome.volatile_loss_detected
    /\ ~outcome.gc_ms_confirmation
    /\ outcome.recommendation = "Perform GC-MS headspace analysis"
    /\ SeverityWith(Int2Num(3)) = "MODERATE"

----------------------------------------------------------------------------
(* Retries of a LIMS submission *)

\* C29: a submission with retry_policy enabled whose attempts all fail stops
\* after at most maxRetries = 3 retries: one submitResult call makes no more than
\* the first attempt and three retried ones.
RetriesAtMostMaxRetries ==
    (submission # None /\ retryEnabled(submission.connector.config)) =>
        submission.attempts <= 1 + maxRetries

----------------------------------------------------------------------------
(* The connector registry *)

\* getConnector was called with no system named and none active, or for a system
\* that has no connector
NothingToGet ==
    \/ call.arg = Undefined /\ limsManager.activeSystem = Null
    \/ call.arg # Undefined /\ call.arg \notin DOMAIN limsManager.connectors

\* C30: activeSystem is always null or the name of a connector in the connectors
\* map; an initialize that fails leaves connectors and activeSystem as they were;
\* testConnection registers no connector and leaves activeSystem as it was;
\* getConnector throws when no system is named and none is active, or when the
\* system named has no connector.
ActiveSystemIsRegistered ==
    /\ [](\/ limsManager.activeSystem = Null
          \/ limsManager.activeSystem \in DOMAIN limsManager.connectors)
    /\ [][(call = None /\ call' # None /\ call'.fn = "initialize" /\ Throws(outcome'))
             => limsManager' = limsManager]_vars
    /\ [][(call = None /\ call' # None /\ call'.fn = "testConnection")
             => limsManager' = limsManager]_vars
    /\ []((Called("getConnector") /\ NothingToGet) => Throws(outcome))

\* with LabWare registered and active, an initialize of another system has failed:
\* LabWare is still the active system and the other system has no connector
ActiveSystemIsRegisteredWitness ==
    /\ Called("initialize") /\ Throws(outcome)
    /\ call.arg = Starlims
    /\ limsManager.activeSystem = LabWare
    /\ DOMAIN limsManager.connectors = {LabWare}

====
